---- MODULE Spec2Model ----
(***************************************************************************)
(* Airplay server: chunked file-transfer pipeline (initiate / chunk upload *)
(* / assembly / download), room lifecycle and the periodic sweeps, over    *)
(* the SQLite store, plus the legacy in-memory upload store.               *)
(*                                                                         *)
(* Time is counted in hours (Date.now() / 3600000).  Strings that the code *)
(* inspects character by character (file names) are sequences of one-      *)
(* character strings.                                                      *)
(***************************************************************************)
EXTENDS Integers, Sequences, FiniteSets, TLC

\* ------------------------------------------------------------------ bounds
MaxTime == 48          \* the clock stops advancing here
MaxFiles == 1          \* crypto.randomUUID() file ids handed out
MaxRooms == 2          \* room ids handed out
MaxLog == 2            \* artifact writes / messages recorded
MaxUploaded == 3       \* InMemoryDB uploadedChunks stops counting here
MaxNameLen == 3        \* length of the enumerated names given to the sanitizers
MaxSweepFiles == 2     \* file ids handed out where the sweep of old uploads is checked
MaxIdLen == 2          \* length of the enumerated user-id texts
MaxPathLen == 4        \* characters after the leading '/' of the enumerated target paths
MaxChunks == 4         \* totalChunks of the file the client sends
MaxSockets == 3        \* WebSocket connections opened

\* ------------------------------------------------------- program constants
CHUNK_SIZE == 524288        \* 512 * 1024
UPLOAD_MAX_AGE == 24        \* cleanupOldUploads: 24 * 60 * 60 * 1000 ms
DEFAULT_ROOM_HOURS == 24    \* createRoom: expiresInHours = 24
MAX_CODE_ATTEMPTS == 10     \* createRoom: attempts < 10
MAX_FILENAME_LEN == 255     \* isFilenameSafe / sanitizeFilename
MAX_EXT_LEN == 10           \* sanitizeFilename: substring(0, 10)
TickHours == 24             \* step of the model clock
MAX_RETRIES == 5            \* HomePage: maximum retries per chunk
CONCURRENT_UPLOADS == 3     \* HomePage: chunks uploaded in parallel

\* ------------------------------------------------------------ input values
None == "none"              \* a missing header or string field
Null == <<>>                \* undefined / null / NULL where the value is not a string
Some(v) == <<v>>            \* a value that may also be Null; its content is [1]
UserIds == {"u1", "u2"}
Bytes == {"A", "B"}
FileIdSeq == <<"f1", "f2", "f3">>
RoomIdSeq == <<"r1", "r2", "r3">>
FileIds == {FileIdSeq[i] : i \in 1..MaxFiles}
RoomIds == {RoomIdSeq[i] : i \in 1..MaxRooms}
\* crypto.randomUUID() / uuidv4(): an id not handed out before
Fresh(ids, issued) == ids[Cardinality(issued) + 1]
Codes == { <<"1","0","0","0","0","0">>, <<"9","9","9","9","9","9">> }
Digits2Seq == <<"0","1","2","3","4","5","6","7","8","9">>
Slots == {1, 2}

Max(a, b) == IF a >= b THEN a ELSE b
Min(a, b) == IF a <= b THEN a ELSE b

\* ------------------------------------------------------------ sanitization
Lower == {"a","b","c","d","e","f","g","h","i","j","k","l","m",
          "n","o","p","q","r","s","t","u","v","w","x","y","z"}
Upper == {"A","B","C","D","E","F","G","H","I","J","K","L","M",
          "N","O","P","Q","R","S","T","U","V","W","X","Y","Z"}
Digits == {"0","1","2","3","4","5","6","7","8","9"}
WordChars == Lower \cup Upper \cup Digits \cup {"_"}      \* \w
ControlChars == {"\t", "\n", "\r"}                        \* sample of \x00-\x1F
SpaceChars == {" ", "\t", "\n", "\r"}                     \* \s
PathChars == {"/", "\\", ":", "*", "?", "\"", "<", ">", "|"}

RECURSIVE HasDotDot(_)
HasDotDot(s) ==
  IF Len(s) < 2 THEN FALSE
  ELSE (s[1] = "." /\ s[2] = ".") \/ HasDotDot(Tail(s))

Includes(s, c) == \E i \in 1..Len(s) : s[i] = c

\* String.prototype.split(sep) for a separator of one character
RECURSIVE Split(_, _)
Split(s, sep) ==
  IF ~Includes(s, sep) THEN <<s>>
  ELSE LET i == CHOOSE k \in 1..Len(s) : s[k] = sep /\ \A j \in 1..(k - 1) : s[j] # sep
       IN  <<SubSeq(s, 1, i - 1)>> \o Split(SubSeq(s, i + 1, Len(s)), sep)

\* Variant for C18: only the '..' test is made
isFilenameSafeDotsOnly(filename) == filename # Null /\ ~HasDotDot(filename)

isFilenameSafe(filename) ==
  IF filename = Null THEN FALSE
  ELSE IF HasDotDot(filename) \/ Includes(filename, "/") \/ Includes(filename, "\\")
  THEN FALSE
  ELSE IF \E i \in 1..Len(filename) :
            filename[i] \in {"<", ">", ":", "\"", "|", "?", "*"} \cup ControlChars
  THEN FALSE
  ELSE IF Len(filename) = 0 \/ Len(filename) > MAX_FILENAME_LEN THEN FALSE
  ELSE TRUE

\* String.prototype.trim()
RECURSIVE TrimLeft(_)
TrimLeft(s) ==
  IF s # <<>> /\ s[1] \in SpaceChars THEN TrimLeft(Tail(s)) ELSE s

RECURSIVE TrimRight(_)
TrimRight(s) ==
  IF s # <<>> /\ s[Len(s)] \in SpaceChars THEN TrimRight(SubSeq(s, 1, Len(s) - 1)) ELSE s

Trim(s) == TrimRight(TrimLeft(s))

RECURSIVE TrimRightOf(_, _)
TrimRightOf(s, C) ==
  IF s # <<>> /\ s[Len(s)] \in C THEN TrimRightOf(SubSeq(s, 1, Len(s) - 1), C) ELSE s

\* lastIndexOf('.') as a 1-based position, 0 when there is no dot
LastDot(s) ==
  IF Includes(s, ".") THEN CHOOSE i \in 1..Len(s) :
       s[i] = "." /\ \A j \in (i+1)..Len(s) : s[j] # "."
  ELSE 0

\* number of leading characters of s that are in class C
RECURSIVE RunLen(_, _)
RunLen(s, C) ==
  IF s # <<>> /\ s[1] \in C THEN 1 + RunLen(Tail(s), C) ELSE 0

\* replace(/[C]{min,}/g, rep)
RECURSIVE ReplaceRuns(_, _, _, _)
ReplaceRuns(s, C, min, rep) ==
  IF s = <<>> THEN <<>>
  ELSE IF s[1] \in C
  THEN LET n == RunLen(s, C)
       IN  (IF n >= min THEN rep ELSE SubSeq(s, 1, n))
             \o ReplaceRuns(SubSeq(s, n + 1, Len(s)), C, min, rep)
  ELSE <<s[1]>> \o ReplaceRuns(Tail(s), C, min, rep)

\* replace(/[C]/g, rep) with rep one character
MapClass(s, C, rep) == [i \in 1..Len(s) |-> IF s[i] \in C THEN rep ELSE s[i]]

\* replace(/[^K]/g, rep) with rep one character
MapNotClass(s, K, rep) == [i \in 1..Len(s) |-> IF s[i] \in K THEN s[i] ELSE rep]

Remove(s, C) == SelectSeq(s, LAMBDA c : c \notin C)
Keep(s, K) == SelectSeq(s, LAMBDA c : c \in K)

LowerSeq == <<"a","b","c","d","e","f","g","h","i","j","k","l","m",
              "n","o","p","q","r","s","t","u","v","w","x","y","z">>
UpperSeq == <<"A","B","C","D","E","F","G","H","I","J","K","L","M",
              "N","O","P","Q","R","S","T","U","V","W","X","Y","Z">>
toUpperCase(s) ==
  [i \in 1..Len(s) |->
     IF s[i] \in Lower
     THEN UpperSeq[CHOOSE k \in 1..26 : LowerSeq[k] = s[i]]
     ELSE s[i]]

windowsReservedNames ==
  { <<"C","O","N">>, <<"P","R","N">>, <<"A","U","X">>, <<"N","U","L">> }
  \cup { <<"C","O","M",d>> : d \in Digits \ {"0"} }
  \cup { <<"L","P","T",d>> : d \in Digits \ {"0"} }

unnamed_file == <<"u","n","n","a","m","e","d","_","f","i","l","e">>

\* the pieces of sanitizeFilename, each value passed on as a parameter
DropLeading(s, C) == SubSeq(s, RunLen(s, C) + 1, Len(s))
Take(s, n) == SubSeq(s, 1, Min(n, Len(s)))
BasePart(s, dot) == IF dot > 1 THEN SubSeq(s, 1, dot - 1) ELSE s
ExtPart(s, dot) == IF dot > 1 THEN SubSeq(s, dot, Len(s)) ELSE <<>>

sanitizeBase(rawBase) ==
  MapNotClass(
    DropLeading(
      ReplaceRuns(
        Remove(ReplaceRuns(MapClass(rawBase, PathChars, "_"), {"."}, 2, <<"_">>),
               ControlChars),
        SpaceChars, 1, <<" ">>),
      {"."}),
    WordChars \cup SpaceChars \cup {".", "-"}, "_")

EnsureDot(e) == IF e # <<>> /\ e[1] = "." THEN e ELSE <<".">> \o e

sanitizeExt(rawExt) ==
  IF rawExt = <<>> THEN <<>>
  ELSE ReplaceRuns(EnsureDot(Take(Keep(rawExt, WordChars \cup {"."}), MAX_EXT_LEN)),
                   {"."}, 2, <<".">>)

Reserved(joined, nameWithoutExt, extension) ==
  IF toUpperCase(nameWithoutExt) \in windowsReservedNames
  THEN nameWithoutExt \o <<"_","f","i","l","e">> \o extension
  ELSE joined

Capped(renamed, baseName, extension) ==
  IF Len(renamed) > MAX_FILENAME_LEN
  THEN Take(baseName, Max(0, MAX_FILENAME_LEN - Len(extension))) \o extension
  ELSE renamed

OrUnnamed(capped, extension) ==
  IF capped = <<>> \/ capped = extension THEN unnamed_file \o extension ELSE capped

Rebuild(joined, baseName, extension) ==
  OrUnnamed(Capped(Reserved(joined, BasePart(joined, LastDot(joined)), extension),
                   baseName, extension),
            extension)

Joined(baseName, extension) == Rebuild(baseName \o extension, baseName, extension)

SplitAt(trimmed, lastDotIndex) ==
  Joined(sanitizeBase(BasePart(trimmed, lastDotIndex)),
         sanitizeExt(ExtPart(trimmed, lastDotIndex)))

Trimmed(trimmed) ==
  IF trimmed = <<>> THEN unnamed_file ELSE SplitAt(trimmed, LastDot(trimmed))

sanitizeFilename(filename) ==
  IF filename = Null THEN unnamed_file ELSE Trimmed(Trim(filename))

\* NFD normalisation followed by the removal of the combining marks
Unaccent(c) == CASE c = "é" -> "e" [] c = "á" -> "a" [] c = "ñ" -> "n" [] OTHER -> c

unknown_user == <<"u","n","k","n","o","w","n","_","u","s","e","r">>
MAX_USERNAME_LEN == 50

UnaccentAll(s) == [i \in 1..Len(s) |-> Unaccent(s[i])]
OrUnknown(s) == IF s = <<>> THEN unknown_user ELSE s

TrimmedUser(trimmed) ==
  IF trimmed = <<>> THEN unknown_user
  ELSE OrUnknown(
         Take(TrimRightOf(
                DropLeading(
                  ReplaceRuns(
                    ReplaceRuns(
                      MapNotClass(
                        UnaccentAll(ReplaceRuns(Remove(trimmed, {"/", "\\"}), {"."}, 2, <<>>)),
                        WordChars \cup SpaceChars \cup {"-"}, "_"),
                      SpaceChars, 1, <<"_">>),
                    {"-", "_"}, 1, <<"_">>),
                  {"-", "_"}),
                {"-", "_"}),
              MAX_USERNAME_LEN))

sanitizeUsername(username) ==
  IF username = Null THEN unknown_user ELSE TrimmedUser(Trim(username))

\* path.resolve of an absolute POSIX path: the segments between '/', with ''
\* and '.' dropped and '..' taking back the segment before it
RECURSIVE ResolveSegments(_, _)
ResolveSegments(segs, acc) ==
  IF segs = <<>> THEN acc
  ELSE IF Head(segs) \in {<<>>, <<".">>} THEN ResolveSegments(Tail(segs), acc)
  ELSE IF Head(segs) = <<".", ".">>
  THEN ResolveSegments(Tail(segs), SubSeq(acc, 1, Len(acc) - 1))
  ELSE ResolveSegments(Tail(segs), Append(acc, Head(segs)))

RECURSIVE JoinSegments(_)
JoinSegments(segs) ==
  IF segs = <<>> THEN <<>> ELSE <<"/">> \o Head(segs) \o JoinSegments(Tail(segs))

resolve(p) ==
  IF ResolveSegments(Split(p, "/"), <<>>) = <<>> THEN <<"/">>
  ELSE JoinSegments(ResolveSegments(Split(p, "/"), <<>>))

\* String.prototype.startsWith
StartsWith(s, prefix) ==
  Len(prefix) <= Len(s) /\ SubSeq(s, 1, Len(prefix)) = prefix

isPathSafe(basePath, targetPath) == StartsWith(resolve(targetPath), resolve(basePath))

\* UTF-16 code-unit order of the characters used
CodeOrder ==
  <<"\t", "\n", "\r", " ", "\"", "*", "-", ".", "/">> \o
  <<"0","1","2","3","4","5","6","7","8","9">> \o <<":", "<", ">", "?">> \o
  UpperSeq \o <<"\\", "_">> \o LowerSeq \o <<"|", "á", "é", "ñ">>
CharCode(c) == CHOOSE k \in 1..Len(CodeOrder) : CodeOrder[k] = c

\* a < b as Array.prototype.sort() compares strings
RECURSIVE StrLess(_, _)
StrLess(a, b) ==
  IF b = <<>> THEN FALSE
  ELSE IF a = <<>> THEN TRUE
  ELSE IF a[1] = b[1] THEN StrLess(Tail(a), Tail(b))
  ELSE CharCode(a[1]) < CharCode(b[1])

\* FileStorageService.getConversationFolderName
SortedJoin(sanitized1, sanitized2) ==
  IF StrLess(sanitized2, sanitized1)
  THEN sanitized2 \o <<"-">> \o sanitized1
  ELSE sanitized1 \o <<"-">> \o sanitized2

getConversationFolderName(userName1, userName2) ==
  SortedJoin(sanitizeUsername(userName1), sanitizeUsername(userName2))

\* FileStorageService.sanitizeRoomId applied to a room id, under rooms/
getRoomPath(roomId) == <<"rooms", roomId>>

\* path.extname: from the last dot, empty when the dot is first or missing
extname(s) == ExtPart(s, LastDot(s))

\* parseInt(string): optional sign, then the leading decimal digits
LeadingDigits(s) == SubSeq(s, 1, RunLen(s, Digits))
DigitValue(c) == (CHOOSE k \in 1..10 : Digits2Seq[k] = c) - 1
RECURSIVE DecimalValue(_)
DecimalValue(ds) ==
  IF ds = <<>> THEN 0
  ELSE 10 * DecimalValue(SubSeq(ds, 1, Len(ds) - 1)) + DigitValue(ds[Len(ds)])

Unsigned(s) == IF s # <<>> /\ s[1] \in {"-", "+"} THEN Tail(s) ELSE s
parseIntIsNaN(s) == LeadingDigits(Unsigned(Trim(s))) = <<>>
Signed(t, v) == IF t # <<>> /\ t[1] = "-" THEN -v ELSE v
parseInt(s) == Signed(Trim(s), DecimalValue(LeadingDigits(Unsigned(Trim(s)))))

\* Math.ceil(a / b) for b > 0
Ceil(a, b) == IF a >= 0 THEN (a + b - 1) \div b ELSE -((-a) \div b)

\* the text of a user id (crypto.randomUUID(): hexadecimal digits and '-')
IdText(u) ==
  CASE u = "u1" -> <<"1", "a">> [] u = "u2" -> <<"2", "b">> [] OTHER -> <<"0">>

\* Variant for C21: the two ids joined in the order given
getConversationIdUnsorted(userId1, userId2) == userId1 \o <<":">> \o userId2

\* [userId1, userId2].sort().join(':') on the texts of the ids
getConversationId(userId1, userId2) ==
  IF StrLess(userId2, userId1)
  THEN userId2 \o <<":">> \o userId1
  ELSE userId1 \o <<":">> \o userId2

\* ------------------------------------------------------------------- state
VARIABLES
  now,                \* Date.now(), in hours
  users,              \* table users: the registered user ids
  file_uploads,       \* table file_uploads: file_id -> row
  file_chunks,        \* table file_chunks: file_id -> (chunk_index -> chunk_data)
  rooms,              \* table rooms: id -> row
  room_participants,  \* table room_participants: room id -> set of user ids
  room_messages,      \* table room_messages, in insertion order
  conversations,      \* table conversation_participants: conversation id -> user ids
  messages,           \* table messages, in insertion order
  disk,               \* fs.writeFile calls of FileStorageService, in order
  reqs,               \* chunk-upload requests suspended at an await, per slot
  resp,               \* the step taken last and the response it sent, if any
  issuedFiles,        \* file ids crypto.randomUUID() has returned so far
  issuedRooms,        \* room ids crypto.randomUUID() / uuidv4() have returned so far
  fileUploads,        \* InMemoryDB.fileUploads
  outcome,            \* results of the last call made on both stores
  transfer,           \* HomePage.handleSendFile: the transfer the client is making
  clients,            \* WebSocketService.clients: user id -> registered connection
  sockets             \* the WebSocket connections: readyState and clientUserId

dbVars == <<users, file_uploads, file_chunks, rooms, room_participants,
            room_messages, conversations, messages>>
roomVars == <<rooms, room_participants, room_messages, issuedRooms>>
uploadVars == <<file_uploads, file_chunks, issuedFiles>>
memVars == <<fileUploads, outcome>>
vars == <<now, users, file_uploads, file_chunks, rooms, room_participants,
          room_messages, conversations, messages, disk, reqs, resp,
          issuedFiles, issuedRooms, fileUploads, outcome, transfer, clients, sockets>>

Idle == [pc |-> "idle"]
NoTransfer == [phase |-> "idle"]
Empty == [x \in {} |-> None]

Init ==
  /\ now = 0
  /\ transfer = NoTransfer
  /\ clients = Empty
  /\ sockets = Empty
  /\ users = {}
  /\ file_uploads = Empty
  /\ file_chunks = Empty
  /\ rooms = Empty
  /\ room_participants = Empty
  /\ room_messages = <<>>
  /\ conversations = Empty
  /\ messages = <<>>
  /\ disk = <<>>
  /\ reqs = [r \in Slots |-> Idle]
  /\ resp = [op |-> "start"]
  /\ issuedFiles = {}
  /\ issuedRooms = {}
  /\ fileUploads = Empty
  /\ outcome = [op |-> "start"]

\* f with key k bound to v (k may be new), and f without key k
Put(f, k, v) == [x \in DOMAIN f \cup {k} |-> IF x = k THEN v ELSE f[x]]
Drop(f, K) == [x \in DOMAIN f \ K |-> f[x]]

\* ------------------------------------------------------------ SQLite store
\* SELECT COUNT(*) FROM file_chunks WHERE file_id = ?
ChunkCount(chunks, fileId) ==
  IF fileId \in DOMAIN chunks THEN Cardinality(DOMAIN chunks[fileId]) ELSE 0

\* Variant for C6: the rows in descending order of chunk_index
RECURSIVE OrderByIndexDesc(_)
OrderByIndexDesc(S) ==
  IF S = {} THEN <<>>
  ELSE LET m == CHOOSE x \in S : \A y \in S : x >= y
       IN  <<m>> \o OrderByIndexDesc(S \ {m})

\* The rows of one file ORDER BY chunk_index, as the sequence of their indices
RECURSIVE OrderByIndex(_)
OrderByIndex(S) ==
  IF S = {} THEN <<>>
  ELSE LET m == CHOOSE x \in S : \A y \in S : x <= y
       IN  <<m>> \o OrderByIndex(S \ {m})

RECURSIVE BufferConcat(_)
BufferConcat(buffers) ==
  IF buffers = <<>> THEN <<>> ELSE <<Head(buffers)>> \o BufferConcat(Tail(buffers))

\* SQLiteDatabase.getCompleteFile: Null when the file has no chunk rows
getCompleteFile(chunks, fileId) ==
  IF ChunkCount(chunks, fileId) = 0 THEN Null
  ELSE LET order == OrderByIndex(DOMAIN chunks[fileId])
       IN  Some(BufferConcat([i \in 1..Len(order) |-> chunks[fileId][order[i]]]))

\* Variant for C39: file_chunks.file_id without the foreign key on file_uploads
addFileChunkThrowsUnreferenced(uploads, fileId, isNaN) == isNaN

\* SQLiteDatabase.addFileChunk: the transaction's writes and its result
\* ("throw" when a constraint fails and the transaction is rolled back)
addFileChunkThrows(uploads, fileId, isNaN) ==
  isNaN \/ fileId \notin DOMAIN uploads

\* Variant for C27: INSERT OR IGNORE, the row stored first stays
addFileChunkChunksIgnore(chunks, fileId, chunkIndex, chunkData) ==
  IF fileId \in DOMAIN chunks /\ chunkIndex \in DOMAIN chunks[fileId] THEN chunks
  ELSE Put(chunks, fileId,
           Put(IF fileId \in DOMAIN chunks THEN chunks[fileId] ELSE Empty,
               chunkIndex, chunkData))

\* the row that INSERT OR REPLACE replaces, Null when the index is new
ReplacedChunk(chunks, fileId, chunkIndex) ==
  IF fileId \in DOMAIN chunks /\ chunkIndex \in DOMAIN chunks[fileId]
  THEN Some(chunks[fileId][chunkIndex]) ELSE Null

addFileChunkChunks(chunks, fileId, chunkIndex, chunkData) ==
  Put(chunks, fileId,
      Put(IF fileId \in DOMAIN chunks THEN chunks[fileId] ELSE Empty,
          chunkIndex, chunkData))

\* Variant for C29: the UPDATE of received_chunks without WHERE file_id = ?
addFileChunkUploadsAllRows(uploads, chunks, fileId, chunkIndex, chunkData) ==
  [g \in DOMAIN uploads |->
     [uploads[g] EXCEPT !.received_chunks =
        ChunkCount(addFileChunkChunks(chunks, fileId, chunkIndex, chunkData), fileId)]]

addFileChunkUploads(uploads, chunks, fileId, chunkIndex, chunkData) ==
  [uploads EXCEPT ![fileId].received_chunks =
     ChunkCount(addFileChunkChunks(chunks, fileId, chunkIndex, chunkData), fileId)]

addFileChunkResult(row) == row.received_chunks >= row.total_chunks

\* Variant for C26: file_chunks without ON DELETE CASCADE
deleteFileUploadChunksKept(chunks, fileId) == chunks

\* SQLiteDatabase.deleteFileUpload: the chunks go by ON DELETE CASCADE
deleteFileUploadRows(uploads, fileId) == Drop(uploads, {fileId})
deleteFileUploadChunks(chunks, fileId) == Drop(chunks, {fileId})

\* Variant for C28: the sweep deletes only the sessions that hold no chunk
OldUploadsEmptyOnly(uploads, t) ==
  {f \in DOMAIN uploads : /\ uploads[f].created_at < t - UPLOAD_MAX_AGE
                          /\ uploads[f].received_chunks = 0}

\* Variant for C17: the sweep spares the sessions whose chunks are all there
OldUploadsIncompleteOnly(uploads, t) ==
  {f \in DOMAIN uploads : /\ uploads[f].created_at < t - UPLOAD_MAX_AGE
                          /\ uploads[f].received_chunks < uploads[f].total_chunks}

\* SQLiteDatabase.cleanupOldUploads
OldUploads(uploads, t) ==
  {f \in DOMAIN uploads : uploads[f].created_at < t - UPLOAD_MAX_AGE}

\* Variant for C15: lookups without the expiry test
RoomExpiredNever(room, t) == FALSE

\* SQLiteDatabase.getRoomByCode / getRoomById: the expired-room test
RoomExpired(room, t) ==
  ~room.is_permanent /\ room.expires_at # Null /\ room.expires_at[1] # 0
    /\ room.expires_at[1] < t

\* Variant for C37: room_messages without ON DELETE CASCADE
deleteRoomMessagesKept(ms, ids) == ms

\* deleteRoom: participants and messages go by ON DELETE CASCADE
deleteRoomRooms(rs, ids) == Drop(rs, ids)
deleteRoomMessages(ms, ids) == SelectSeq(ms, LAMBDA m : m.roomId \notin ids)

\* getRoomById(roomId): None, or the room id when it resolves; an expired room
\* is deleted by the lookup
getRoomById(rs, roomId, t) ==
  IF roomId \notin DOMAIN rs THEN None
  ELSE IF RoomExpired(rs[roomId], t) THEN None
  ELSE roomId

LazilyDeletedById(rs, roomId, t) ==
  IF roomId \in DOMAIN rs /\ RoomExpired(rs[roomId], t) THEN {roomId} ELSE {}

\* getRoomByCode(code): at most one row has the code (code UNIQUE)
RoomWithCode(rs, code) == {id \in DOMAIN rs : rs[id].code = code}

getRoomByCode(rs, code, t) ==
  IF RoomWithCode(rs, code) = {} THEN None
  ELSE getRoomById(rs, CHOOSE id \in RoomWithCode(rs, code) : TRUE, t)

LazilyDeletedByCode(rs, code, t) ==
  {id \in RoomWithCode(rs, code) : RoomExpired(rs[id], t)}

\* Variant for C9: the participant test is left out
ensureRoomAccessAnyUser(rs, parts, userId, roomId, t) ==
  IF getRoomById(rs, roomId, t) = None THEN 404 ELSE 0

\* ensureRoomAccess(userId, roomId): 0 when access is granted, else the status
ensureRoomAccess(rs, parts, userId, roomId, t) ==
  IF getRoomById(rs, roomId, t) = None THEN 404
  ELSE IF userId \notin parts[roomId] THEN 403
  ELSE 0

\* ---------------------------------------------------------------- handlers
HasValue(x) == x # None          \* Boolean(header) for the values modelled

\* Variant for C7: only a request with neither target is refused
BadTargetNeitherOnly(recipientId, roomId) ==
  ~HasValue(recipientId) /\ ~HasValue(roomId)

BadTarget(recipientId, roomId) ==
  (HasValue(recipientId) /\ HasValue(roomId))
    \/ (~HasValue(recipientId) /\ ~HasValue(roomId))

\* What a room lookup by id leaves in the three room tables
RoomsAfterLookup(roomId) == deleteRoomRooms(rooms, LazilyDeletedById(rooms, roomId, now))
PartsAfterLookup(roomId) == Drop(room_participants, LazilyDeletedById(rooms, roomId, now))
MsgsAfterLookup(roomId) == deleteRoomMessages(room_messages, LazilyDeletedById(rooms, roomId, now))

LookupRoom(roomId) ==
  /\ rooms' = RoomsAfterLookup(roomId)
  /\ room_participants' = PartsAfterLookup(roomId)
  /\ room_messages' = MsgsAfterLookup(roomId)

\* POST /api/users/login with a name nobody uses yet
Login(u) ==
  /\ u \notin users
  /\ users' = users \cup {u}
  /\ resp' = [op |-> "login", status |-> 200, caller |-> u]
  /\ UNCHANGED <<transfer, clients, sockets, now, file_uploads, file_chunks, rooms, room_participants,
                 room_messages, conversations, messages, disk, reqs,
                 issuedFiles, issuedRooms, fileUploads, outcome>>

\* POST /api/files/initiate
InitiateStatus(caller, recipientId, roomId, file) ==
  IF caller = None THEN 401
  ELSE IF file = Null THEN 400
  ELSE IF BadTarget(recipientId, roomId) THEN 400
  ELSE IF HasValue(roomId)
          /\ ensureRoomAccess(rooms, room_participants, caller, roomId, now) # 0
  THEN ensureRoomAccess(rooms, room_participants, caller, roomId, now)
  ELSE IF file.name = <<>> \/ ~isFilenameSafe(file.name) THEN 400
  ELSE 200

InitiateRow(file) ==
  [metadata |-> [name |-> sanitizeFilename(file.name), size |-> file.size],
   total_chunks |-> Ceil(file.size, CHUNK_SIZE),
   received_chunks |-> 0,
   created_at |-> now]

InitiateWithin(limit, caller, recipientId, roomId, file) ==
  LET status == InitiateStatus(caller, recipientId, roomId, file)
      looked == caller # None /\ file # Null /\ ~BadTarget(recipientId, roomId)
                  /\ HasValue(roomId)
  IN
  /\ IF looked THEN LookupRoom(roomId)
     ELSE UNCHANGED <<rooms, room_participants, room_messages>>
  /\ IF status = 200
     THEN LET fileId == Fresh(FileIdSeq, issuedFiles) IN
            /\ Cardinality(issuedFiles) < limit
            /\ issuedFiles' = issuedFiles \cup {fileId}
            /\ file_uploads' = Put(file_uploads, fileId, InitiateRow(file))
            /\ resp' = [op |-> "initiate", status |-> 200, caller |-> caller,
                        recipientId |-> recipientId, roomId |-> roomId,
                        file |-> file, fileId |-> fileId]
     ELSE /\ UNCHANGED <<issuedFiles, file_uploads>>
          /\ resp' = [op |-> "initiate", status |-> status, caller |-> caller,
                      recipientId |-> recipientId, roomId |-> roomId,
                      file |-> file, fileId |-> None]
  /\ UNCHANGED <<transfer, clients, sockets, now, users, file_chunks, conversations, messages, disk, reqs,
                 issuedRooms, fileUploads, outcome>>

Initiate(caller, recipientId, roomId, file) ==
  InitiateWithin(MaxFiles, caller, recipientId, roomId, file)

\* POST /api/files/upload/:fileId/:chunkIndex, up to the await of the body
UploadBeginStatus(caller, recipientId, roomId) ==
  IF caller = None THEN 401
  ELSE IF BadTarget(recipientId, roomId) THEN 400
  ELSE IF HasValue(roomId) THEN ensureRoomAccess(rooms, room_participants, caller, roomId, now)
  ELSE 0

UploadBegin(r, caller, fileId, chunkIndex, chunkData, recipientId, roomId) ==
  LET status == UploadBeginStatus(caller, recipientId, roomId)
      looked == caller # None /\ ~BadTarget(recipientId, roomId) /\ HasValue(roomId)
  IN
  /\ reqs[r].pc = "idle"
  /\ IF looked THEN LookupRoom(roomId)
     ELSE UNCHANGED <<rooms, room_participants, room_messages>>
  /\ IF status = 0
     THEN /\ reqs' = [reqs EXCEPT ![r] =
                [pc |-> "body", caller |-> caller, fileId |-> fileId,
                 index |-> chunkIndex, data |-> chunkData,
                 recipientId |-> recipientId, roomId |-> roomId,
                 roomCode |-> IF HasValue(roomId) THEN rooms[roomId].code ELSE <<>>,
                 completeFile |-> Null, fileMeta |-> Null]]
          /\ resp' = [op |-> "upload", step |-> "begin", slot |-> r, status |-> 0,
                      caller |-> caller, recipientId |-> recipientId, roomId |-> roomId]
     ELSE /\ UNCHANGED reqs
          /\ resp' = [op |-> "upload", step |-> "begin", slot |-> r, status |-> status,
                      caller |-> caller, recipientId |-> recipientId, roomId |-> roomId]
  /\ UNCHANGED <<transfer, clients, sockets, now, users, file_uploads, file_chunks, conversations, messages,
                 disk, issuedFiles, issuedRooms, fileUploads, outcome>>

\* The body read loses the race against the 100 s timer: the catch answers 500
UploadTimeout(r) ==
  /\ reqs[r].pc = "body"
  /\ reqs' = [reqs EXCEPT ![r] = Idle]
  /\ resp' = [op |-> "upload", step |-> "timeout", slot |-> r, status |-> 500]
  /\ UNCHANGED <<transfer, clients, sockets, now, users, file_uploads, file_chunks, rooms, room_participants,
                 room_messages, conversations, messages, disk, issuedFiles,
                 issuedRooms, fileUploads, outcome>>

\* From the body to the first await of saveFile / saveRoomFile, or to the response
UploadStore(r) ==
  LET q == reqs[r]
      chunkIndex == parseInt(q.index)
      throws == addFileChunkThrows(file_uploads, q.fileId, parseIntIsNaN(q.index))
      chunks2 == addFileChunkChunks(file_chunks, q.fileId, chunkIndex, q.data)
      uploads2 == addFileChunkUploads(file_uploads, file_chunks, q.fileId, chunkIndex, q.data)
      isComplete == /\ q.fileId \in DOMAIN uploads2           \* result && ...
                    /\ addFileChunkResult(uploads2[q.fileId])
      completeFile == getCompleteFile(chunks2, q.fileId)
      replaced == IF throws THEN Null
                  ELSE ReplacedChunk(file_chunks, q.fileId, chunkIndex)
      done(status, complete) ==
        /\ reqs' = [reqs EXCEPT ![r] = Idle]
        /\ resp' = [op |-> "upload", step |-> "store", slot |-> r, status |-> status,
                    isComplete |-> complete, fileId |-> q.fileId, index |-> q.index,
                    replaced |-> replaced]
  IN
  /\ q.pc = "body"
  /\ IF throws
     THEN /\ UNCHANGED <<file_uploads, file_chunks>>
          /\ done(500, FALSE)
     ELSE /\ file_chunks' = chunks2
          /\ file_uploads' = uploads2
          /\ IF ~isComplete \/ completeFile = Null THEN done(200, isComplete)
             ELSE IF q.caller \notin users THEN done(404, TRUE)
             ELSE IF HasValue(q.recipientId) /\ q.recipientId \notin users THEN done(404, TRUE)
             ELSE /\ reqs' = [reqs EXCEPT ![r] =
                        [q EXCEPT !.pc = "save", !.completeFile = completeFile[1],
                                  !.fileMeta = uploads2[q.fileId].metadata]]
                  /\ resp' = [op |-> "upload", step |-> "store", slot |-> r, status |-> 0,
                              isComplete |-> TRUE, fileId |-> q.fileId, index |-> q.index,
                              replaced |-> replaced]
  /\ UNCHANGED <<transfer, clients, sockets, now, users, rooms, room_participants, room_messages, conversations,
                 messages, disk, issuedFiles, issuedRooms, fileUploads, outcome>>

WsStates == {"null", "absent", "closed", "throws", "open"}

\* The user's stored name and the date part of an artifact name
UserName(u) == IF u = "u1" THEN <<"A","n","a">> ELSE <<"B","o","b">>
DateString(t) == <<"d">> \o <<Digits2Seq[(t \div 24) + 1]>>

\* FileStorageService.generateFileName / generateRoomFileName
generateFileName(senderName, receiverName, originalName) ==
  DateString(now) \o <<"_">> \o sanitizeUsername(senderName) \o <<"_">>
    \o sanitizeUsername(receiverName) \o extname(sanitizeFilename(originalName))

generateRoomFileName(roomCode, senderName, originalName) ==
  DateString(now) \o <<"_","s","a","l","a","-">> \o roomCode \o <<"_">>
    \o sanitizeUsername(senderName) \o extname(sanitizeFilename(originalName))

\* the name and the folder that saveFile / saveRoomFile use for request q
SavedFileName(q) ==
  IF HasValue(q.recipientId)
  THEN generateFileName(UserName(q.caller), UserName(q.recipientId), q.fileMeta.name)
  ELSE generateRoomFileName(q.roomCode, UserName(q.caller), q.fileMeta.name)

SavedFolder(q) ==
  IF HasValue(q.recipientId)
  THEN getConversationFolderName(UserName(q.caller), UserName(q.recipientId))
  ELSE getRoomPath(q.roomId)

\* Variant for C38: the file message attributed to the other user of the pair
FileMessageOfRecipient(q, savedFileName) ==
  [conversationId |-> getConversationId(IdText(q.caller), IdText(q.recipientId)),
   senderId |-> q.recipientId, content |-> savedFileName,
   type |-> "file", file |-> q.fileMeta, fileId |-> q.fileId]

FileMessage(q, savedFileName) ==
  [conversationId |-> getConversationId(IdText(q.caller), IdText(q.recipientId)),
   senderId |-> q.caller, content |-> savedFileName,
   type |-> "file", file |-> q.fileMeta, fileId |-> q.fileId]

RoomFileMessage(q, savedFileName) ==
  [roomId |-> q.roomId,
   senderId |-> q.caller, content |-> savedFileName,
   type |-> "file", file |-> q.fileMeta, fileId |-> q.fileId]

\* WebSocketService, as the request finds it (ws): "null" when no service was
\* initialised, else the recipient's entry of clients: "absent", "closed"
\* (readyState is not OPEN), "throws" (OPEN, ws.send throws) or "open"
\* Variant for C22: send without its try / catch
sendThrowsUncaught(ws) == ws = "throws"

\* WebSocketService.send: the exception that leaves it (none, it is caught)
sendThrows(ws) == FALSE

\* WebSocketService.send: the value returned
send(ws) == ws = "open"

\* WebSocketService.sendToClient
sendToClient(ws) == IF ws = "absent" THEN FALSE ELSE send(ws)

\* WebSocketService.notifyNewMessage: the participant that is not the sender
FindRecipient(conversationId, senderId) ==
  SelectSeq(Split(conversationId, ":"), LAMBDA id : id # senderId)

\* getWebSocketService() and notifyNewMessage: delivered, and thrown
Notified(ws, conversationId, senderId) ==
  /\ ws # "null"
  /\ FindRecipient(conversationId, senderId) # <<>>
  /\ sendToClient(ws)

NotifyThrows(ws, conversationId, senderId) ==
  /\ ws \notin {"null", "absent"}
  /\ FindRecipient(conversationId, senderId) # <<>>
  /\ sendThrows(ws)

\* db.getConversation / db.createConversation
EnsureConversation(convs, conversationId, a, b) ==
  IF conversationId \in DOMAIN convs THEN convs ELSE Put(convs, conversationId, {a, b})

\* Variant for C32: the INSERT of a room message without the foreign key on rooms
addMessageToRoomThrowsNever(rs, roomId) == FALSE

\* SQLiteDatabase.addMessageToRoom throws when the room row is gone (room_id
\* REFERENCES rooms); the sender is a registered user here
addMessageToRoomThrows(rs, roomId) == roomId \notin DOMAIN rs

\* saveFile / saveRoomFile write the artifact; the handler goes on to the next await
UploadSaveAs(r, q, savedFileName, folder, ws) ==
  /\ q.pc = "save"
  /\ Len(disk) < MaxLog
  /\ disk' = Append(disk, [fileId |-> q.fileId, folder |-> folder,
                           name |-> savedFileName, data |-> q.completeFile])
  /\ IF HasValue(q.recipientId)
     THEN /\ conversations' =
               EnsureConversation(conversations,
                                  getConversationId(IdText(q.caller), IdText(q.recipientId)),
                                  q.caller, q.recipientId)
          /\ messages' = Append(messages, FileMessage(q, savedFileName))
          /\ IF NotifyThrows(ws, FileMessage(q, savedFileName).conversationId,
                             IdText(q.caller))
             THEN /\ reqs' = [reqs EXCEPT ![r] = Idle]
                  /\ resp' = [op |-> "upload", step |-> "save", slot |-> r,
                              status |-> 500, ws |-> ws, notified |-> FALSE]
             ELSE /\ reqs' = [reqs EXCEPT ![r].pc = "persist"]
                  /\ resp' = [op |-> "upload", step |-> "save", slot |-> r,
                              status |-> 0, ws |-> ws,
                              notified |-> Notified(ws,
                                             FileMessage(q, savedFileName).conversationId,
                                             IdText(q.caller))]
          /\ UNCHANGED <<file_uploads, file_chunks, room_messages>>
     ELSE IF addMessageToRoomThrows(rooms, q.roomId)
     THEN \* INSERT INTO room_messages fails on the room_id foreign key
          /\ reqs' = [reqs EXCEPT ![r] = Idle]
          /\ resp' = [op |-> "upload", step |-> "save", slot |-> r, status |-> 500]
          /\ UNCHANGED <<file_uploads, file_chunks, room_messages, conversations, messages>>
     ELSE /\ room_messages' = Append(room_messages, RoomFileMessage(q, savedFileName))
          /\ file_uploads' = deleteFileUploadRows(file_uploads, q.fileId)
          /\ file_chunks' = deleteFileUploadChunks(file_chunks, q.fileId)
          /\ reqs' = [reqs EXCEPT ![r] = Idle]
          /\ resp' = [op |-> "upload", step |-> "save", slot |-> r, status |-> 200,
                      isComplete |-> TRUE, fileId |-> q.fileId]
          /\ UNCHANGED <<conversations, messages>>
  /\ UNCHANGED <<transfer, clients, sockets, now, users, rooms, room_participants, issuedFiles, issuedRooms,
                 fileUploads, outcome>>

UploadSave(r) ==
  /\ reqs[r].pc = "save"
  /\ \E ws \in WsStates :
       UploadSaveAs(r, reqs[r], SavedFileName(reqs[r]), SavedFolder(reqs[r]), ws)

\* After MessageStorageService.saveMessage: deleteFileUpload and the response
UploadPersist(r) ==
  LET q == reqs[r] IN
  /\ q.pc = "persist"
  /\ file_uploads' = deleteFileUploadRows(file_uploads, q.fileId)
  /\ file_chunks' = deleteFileUploadChunks(file_chunks, q.fileId)
  /\ reqs' = [reqs EXCEPT ![r] = Idle]
  /\ resp' = [op |-> "upload", step |-> "persist", slot |-> r, status |-> 200,
              isComplete |-> TRUE, fileId |-> q.fileId]
  /\ UNCHANGED <<transfer, clients, sockets, now, users, rooms, room_participants, room_messages, conversations,
                 messages, disk, issuedFiles, issuedRooms, fileUploads, outcome>>

\* POST /api/messages; content is the text after trim and the removal of
\* control characters
TextMessage(caller, recipientId, content) ==
  [conversationId |-> getConversationId(IdText(caller), IdText(recipientId)),
   senderId |-> caller, content |-> content,
   type |-> "text", file |-> Null, fileId |-> None]

\* db.createConversation throws on the foreign key of a participant on users
createConversationThrows(convs, conversationId, a, b) ==
  conversationId \notin DOMAIN convs /\ ~({a, b} \subseteq users)

MessagesPostStatus(caller, recipientId, content, ws) ==
  IF caller = None THEN 401
  ELSE IF recipientId = None \/ content = <<>> THEN 400
  ELSE IF createConversationThrows(conversations,
            getConversationId(IdText(caller), IdText(recipientId)), caller, recipientId)
  THEN 500
  ELSE IF NotifyThrows(ws, getConversationId(IdText(caller), IdText(recipientId)),
                       IdText(caller))
  THEN 500
  ELSE 200

MessagesPostStored(caller, recipientId, content) ==
  /\ caller # None /\ recipientId # None /\ content # <<>>
  /\ ~createConversationThrows(conversations,
         getConversationId(IdText(caller), IdText(recipientId)), caller, recipientId)

MessagesPost(caller, recipientId, content, ws) ==
  /\ IF MessagesPostStored(caller, recipientId, content)
     THEN /\ Len(messages) < MaxLog
          /\ conversations' =
               EnsureConversation(conversations,
                                  getConversationId(IdText(caller), IdText(recipientId)),
                                  caller, recipientId)
          /\ messages' = Append(messages, TextMessage(caller, recipientId, content))
     ELSE UNCHANGED <<conversations, messages>>
  /\ resp' = [op |-> "messages.post", caller |-> caller, recipientId |-> recipientId,
              content |-> content, ws |-> ws,
              status |-> MessagesPostStatus(caller, recipientId, content, ws),
              notified |-> /\ MessagesPostStored(caller, recipientId, content)
                           /\ Notified(ws, getConversationId(IdText(caller),
                                                             IdText(recipientId)),
                                        IdText(caller))]
  /\ UNCHANGED <<transfer, clients, sockets, now, users, file_uploads, file_chunks, rooms, room_participants,
                 room_messages, disk, reqs, issuedFiles, issuedRooms, fileUploads, outcome>>

\* GET /api/conversations/:userId: the conversation of the caller and the other
\* user is returned, and created first when it has no participant row
ConversationsGetStatus(caller, otherUserId) ==
  IF caller = None THEN 401
  ELSE IF createConversationThrows(conversations,
            getConversationId(IdText(caller), IdText(otherUserId)), caller, otherUserId)
  THEN 500
  ELSE 200

ConversationsGet(caller, otherUserId) ==
  /\ conversations' =
       IF ConversationsGetStatus(caller, otherUserId) = 200
       THEN EnsureConversation(conversations,
                               getConversationId(IdText(caller), IdText(otherUserId)),
                               caller, otherUserId)
       ELSE conversations
  /\ resp' = [op |-> "conversations.get", caller |-> caller, otherUserId |-> otherUserId,
              status |-> ConversationsGetStatus(caller, otherUserId),
              existed |-> caller # None
                          /\ getConversationId(IdText(caller), IdText(otherUserId))
                               \in DOMAIN conversations]
  /\ UNCHANGED <<transfer, clients, sockets, now, users, file_uploads, file_chunks, rooms, room_participants,
                 room_messages, messages, disk, reqs, issuedFiles, issuedRooms,
                 fileUploads, outcome>>

\* GET /api/files/:fileId (the stored artifact name) with otherUserId / roomId
DownloadStatus(caller, fileName, otherUserId, roomId) ==
  IF caller = None THEN 401
  ELSE IF BadTarget(otherUserId, roomId) THEN 400
  ELSE IF ~isFilenameSafe(fileName) THEN 400
  ELSE IF HasValue(otherUserId)
  THEN (IF caller \notin users \/ otherUserId \notin users THEN 404 ELSE 0)
  ELSE ensureRoomAccess(rooms, room_participants, caller, roomId, now)

\* fs.readFile of folder/name: the bytes written last there, Null when missing
ReadFile(folder, name) ==
  LET hits == {i \in 1..Len(disk) : disk[i].folder = folder /\ disk[i].name = name}
  IN IF hits = {} THEN Null
     ELSE Some(disk[CHOOSE i \in hits : \A j \in hits : j <= i].data)

DownloadFolder(caller, otherUserId, roomId) ==
  IF HasValue(otherUserId)
  THEN getConversationFolderName(UserName(caller), UserName(otherUserId))
  ELSE getRoomPath(roomId)

DownloadRead(status, caller, fileName, otherUserId, roomId) ==
  IF status = 0
  THEN ReadFile(DownloadFolder(caller, otherUserId, roomId), sanitizeFilename(fileName))
  ELSE Null

DownloadAs(status, fileData, caller, fileName, otherUserId, roomId) ==
  /\ IF caller # None /\ ~BadTarget(otherUserId, roomId)
          /\ isFilenameSafe(fileName) /\ HasValue(roomId)
     THEN LookupRoom(roomId)
     ELSE UNCHANGED <<rooms, room_participants, room_messages>>
  /\ resp' = [op |-> "download", caller |-> caller, fileName |-> fileName,
              otherUserId |-> otherUserId, roomId |-> roomId,
              readFile |-> (status = 0), body |-> fileData,
              status |-> IF status # 0 THEN status
                         ELSE IF fileData = Null THEN 404 ELSE 200]
  /\ UNCHANGED <<transfer, clients, sockets, now, users, file_uploads, file_chunks, conversations, messages,
                 disk, reqs, issuedFiles, issuedRooms, fileUploads, outcome>>

Download(caller, fileName, otherUserId, roomId) ==
  DownloadAs(DownloadStatus(caller, fileName, otherUserId, roomId),
             DownloadRead(DownloadStatus(caller, fileName, otherUserId, roomId),
                          caller, fileName, otherUserId, roomId),
             caller, fileName, otherUserId, roomId)

\* setInterval(db.cleanupOldUploads, 6 h)
CleanupOldUploads ==
  /\ file_uploads' = Drop(file_uploads, OldUploads(file_uploads, now))
  /\ file_chunks' = Drop(file_chunks, OldUploads(file_uploads, now))
  /\ resp' = [op |-> "cleanupOldUploads", deleted |-> OldUploads(file_uploads, now)]
  /\ UNCHANGED <<transfer, clients, sockets, now, users, rooms, room_participants, room_messages, conversations,
                 messages, disk, reqs, issuedFiles, issuedRooms, fileUploads, outcome>>

\* The clock advances
Tick ==
  /\ now + TickHours <= MaxTime
  /\ now' = now + TickHours
  /\ resp' = [op |-> "tick"]
  /\ UNCHANGED <<transfer, clients, sockets, users, file_uploads, file_chunks, rooms, room_participants,
                 room_messages, conversations, messages, disk, reqs, issuedFiles,
                 issuedRooms, fileUploads, outcome>>

\* ------------------------------------------------------------------- rooms
\* SQLiteDatabase.createRoom, the code loop: gen holds the codes that
\* generateRoomCode() returns, in order; the result is the code the loop ends on
RECURSIVE CodeLoop(_, _, _, _)
CodeLoop(rs, gen, attempts, t) ==
  IF getRoomByCode(rs, Head(gen), t) # None /\ attempts < MAX_CODE_ATTEMPTS
  THEN CodeLoop(rs, Tail(gen), attempts + 1, t)
  ELSE Head(gen)

\* the rooms the loop's getRoomByCode calls delete as expired
RECURSIVE CodeLoopDeleted(_, _, _, _)
CodeLoopDeleted(rs, gen, attempts, t) ==
  IF getRoomByCode(rs, Head(gen), t) # None /\ attempts < MAX_CODE_ATTEMPTS
  THEN CodeLoopDeleted(rs, Tail(gen), attempts + 1, t)
  ELSE LazilyDeletedByCode(rs, Head(gen), t)

\* the value of attempts when the loop ends: the number of codes it gave up
RECURSIVE CodeLoopAttempts(_, _, _, _)
CodeLoopAttempts(rs, gen, attempts, t) ==
  IF getRoomByCode(rs, Head(gen), t) # None /\ attempts < MAX_CODE_ATTEMPTS
  THEN CodeLoopAttempts(rs, Tail(gen), attempts + 1, t)
  ELSE attempts

\* Variant for C10: the rooms table without UNIQUE on code
InsertRoomThrowsNoUnique(rs, code, createdBy) == createdBy \notin users

\* INSERT INTO rooms / room_participants fails: code UNIQUE, or a foreign key on users
InsertRoomThrows(rs, code, createdBy) ==
  RoomWithCode(rs, code) # {} \/ createdBy \notin users

\* options as SQLiteDatabase.createRoom destructures them: a number (the ttl
\* that Database.createRoom forwards, here [number |-> ttl]) has neither property
OptionHours(options) ==
  IF "expiresInHours" \in DOMAIN options THEN options.expiresInHours
  ELSE DEFAULT_ROOM_HOURS

OptionPermanent(options) ==
  IF "isPermanent" \in DOMAIN options THEN options.isPermanent ELSE FALSE

RoomRow(code, createdBy, options) ==
  [code |-> code, created_by |-> createdBy,
   expires_at |-> IF OptionPermanent(options) THEN Null
                  ELSE Some(now + OptionHours(options)),
   is_permanent |-> OptionPermanent(options)]

\* db.createRoom(roomId, name, createdBy, options) followed by db.getRoomById(roomId)
CreateRoom(op, roomId, createdBy, options, gen) ==
  LET gone == CodeLoopDeleted(rooms, gen, 0, now)
      code == CodeLoop(rooms, gen, 0, now)
      rs == deleteRoomRooms(rooms, gone)
      throws == InsertRoomThrows(rs, code, createdBy)
  IN
  /\ room_messages' = deleteRoomMessages(room_messages, gone)
  /\ IF throws
     THEN /\ rooms' = rs
          /\ room_participants' = Drop(room_participants, gone)
          /\ UNCHANGED issuedRooms
          /\ resp' = [op |-> op, status |-> 500, caller |-> createdBy, roomId |-> None,
                      options |-> options,
                      attempts |-> CodeLoopAttempts(rooms, gen, 0, now)]
     ELSE /\ rooms' = Put(rs, roomId, RoomRow(code, createdBy, options))
          /\ room_participants' = Put(Drop(room_participants, gone), roomId, {createdBy})
          /\ issuedRooms' = issuedRooms \cup {roomId}
          /\ resp' = [op |-> op, status |-> 200, caller |-> createdBy, roomId |-> roomId,
                      options |-> options,
                      attempts |-> CodeLoopAttempts(rooms, gen, 0, now)]

Reject(op, status, caller) ==
  /\ resp' = [op |-> op, status |-> status, caller |-> caller, roomId |-> None]
  /\ UNCHANGED roomVars

\* Math.max(1, Math.min(72, ttl))
ClampTtl(expiresInHours) ==
  Max(1, Min(72, IF expiresInHours = Null THEN DEFAULT_ROOM_HOURS ELSE expiresInHours[1]))

\* POST /api/rooms (userRoutes)
RoomsPost(caller, expiresInHours, gen) ==
  /\ IF caller = None THEN Reject("rooms.post", 401, caller)
     ELSE /\ Cardinality(issuedRooms) < MaxRooms
          /\ CreateRoom("rooms.post", Fresh(RoomIdSeq, issuedRooms), caller,
                       [number |-> ClampTtl(expiresInHours)], gen)
  /\ UNCHANGED <<transfer, clients, sockets, now, users, file_uploads, file_chunks, conversations, messages,
                 disk, reqs, issuedFiles, fileUploads, outcome>>

\* POST /api/rooms/create (roomRoutes)
RoomsCreate(userId, isPermanent, gen) ==
  /\ IF userId = None THEN Reject("rooms.create", 400, userId)
     ELSE IF userId \notin users THEN Reject("rooms.create", 404, userId)
     ELSE /\ Cardinality(issuedRooms) < MaxRooms
          /\ CreateRoom("rooms.create", Fresh(RoomIdSeq, issuedRooms), userId,
                       [isPermanent |-> isPermanent], gen)
  /\ UNCHANGED <<transfer, clients, sockets, now, users, file_uploads, file_chunks, conversations, messages,
                 disk, reqs, issuedFiles, fileUploads, outcome>>

\* Variant for C13: join without the test for an existing participant
alreadyParticipantNever(parts, roomId, userId) == FALSE

\* room.participants?.some(p => p.userId === currentUserId)
alreadyParticipant(parts, roomId, userId) == userId \in parts[roomId]

\* SQLiteDatabase.addParticipantToRoom: false when the INSERT throws, on the
\* primary key (room_id, user_id) or on the foreign key to users
addParticipantToRoom(parts, roomId, userId) ==
  userId \notin parts[roomId] /\ userId \in users

JoinStatus(caller, code, roomId) ==
  IF caller = None THEN 401
  ELSE IF code = <<>> THEN 400
  ELSE IF roomId = None THEN 404
  ELSE IF alreadyParticipant(room_participants, roomId, caller) THEN 200
  ELSE IF ~addParticipantToRoom(room_participants, roomId, caller) THEN 500
  ELSE 200

\* POST /api/rooms/join (userRoutes, registered first)
RoomsJoin(caller, code) ==
  LET gone == LazilyDeletedByCode(rooms, code, now)
      roomId == getRoomByCode(rooms, code, now)
      status == JoinStatus(caller, code, roomId)
  IN
  /\ IF caller = None \/ code = <<>>
     THEN UNCHANGED <<rooms, room_participants, room_messages>>
     ELSE /\ rooms' = deleteRoomRooms(rooms, gone)
          /\ room_messages' = deleteRoomMessages(room_messages, gone)
          /\ room_participants' =
               IF status = 200
               THEN [room_participants EXCEPT ![roomId] = @ \cup {caller}]
               ELSE Drop(room_participants, gone)
  /\ resp' = [op |-> "rooms.join", status |-> status, caller |-> caller, code |-> code,
              roomId |-> IF status = 200 THEN roomId ELSE None,
              already |-> status = 200 /\ caller \in room_participants[roomId]]
  /\ UNCHANGED <<transfer, clients, sockets, now, users, file_uploads, file_chunks, conversations, messages,
                 disk, reqs, issuedFiles, issuedRooms, fileUploads, outcome>>

\* Variant for C14: leave without the deletion of a room left empty
LeftEmptyKept(roomId, left) == {}

\* if (updatedRoom && updatedRoom.participants.length === 0) db.deleteRoom(roomId)
LeftEmpty(roomId, left) == IF left = {} THEN {roomId} ELSE {}

\* POST /api/rooms/:roomId/leave (roomRoutes): userId is read from the body;
\* caller is the X-User-Id header, which the handler does not read
RoomsLeaveAs(caller, roomId, userId) ==
  LET gone == LazilyDeletedById(rooms, roomId, now)
      found == userId # None /\ getRoomById(rooms, roomId, now) # None
      left == IF found THEN room_participants[roomId] \ {userId} ELSE {}
      empty == IF found THEN LeftEmpty(roomId, left) ELSE {}
      removed == IF found THEN [room_participants EXCEPT ![roomId] = left]
                 ELSE room_participants
  IN
  /\ IF userId = None
     THEN UNCHANGED <<rooms, room_participants, room_messages>>
     ELSE /\ rooms' = deleteRoomRooms(rooms, gone \cup empty)
          /\ room_messages' = deleteRoomMessages(room_messages, gone \cup empty)
          /\ room_participants' = Drop(removed, gone \cup empty)
  /\ resp' = [op |-> "rooms.leave", caller |-> userId, roomId |-> roomId,
              header |-> caller,
              status |-> IF userId = None THEN 400 ELSE IF found THEN 200 ELSE 404]
  /\ UNCHANGED <<transfer, clients, sockets, now, users, file_uploads, file_chunks, conversations, messages,
                 disk, reqs, issuedFiles, issuedRooms, fileUploads, outcome>>

\* leave as the client sends it: its own id in the header and in the body
RoomsLeave(roomId, userId) == RoomsLeaveAs(userId, roomId, userId)

\* GET /api/rooms/:roomId (userRoutes, registered first)
RoomAccessStatus(caller, roomId) ==
  IF caller = None THEN 401
  ELSE IF ensureRoomAccess(rooms, room_participants, caller, roomId, now) # 0
  THEN ensureRoomAccess(rooms, room_participants, caller, roomId, now)
  ELSE 200

RoomsGet(caller, roomId) ==
  /\ IF caller = None THEN UNCHANGED <<rooms, room_participants, room_messages>>
     ELSE LookupRoom(roomId)
  /\ resp' = [op |-> "rooms.get", status |-> RoomAccessStatus(caller, roomId),
              caller |-> caller, roomId |-> roomId,
              deleted |-> IF caller = None THEN {}
                          ELSE LazilyDeletedById(rooms, roomId, now)]
  /\ UNCHANGED <<transfer, clients, sockets, now, users, file_uploads, file_chunks, conversations, messages,
                 disk, reqs, issuedFiles, issuedRooms, fileUploads, outcome>>

\* PUT and GET /api/rooms/:roomId/avatar with a valid image: the stored image
\* itself is not part of the state
RoomsAvatar(method, caller, roomId) ==
  /\ IF caller = None THEN UNCHANGED <<rooms, room_participants, room_messages>>
     ELSE LookupRoom(roomId)
  /\ resp' = [op |-> "rooms.avatar", method |-> method,
              status |-> RoomAccessStatus(caller, roomId),
              caller |-> caller, roomId |-> roomId]
  /\ UNCHANGED <<transfer, clients, sockets, now, users, file_uploads, file_chunks, conversations, messages,
                 disk, reqs, issuedFiles, issuedRooms, fileUploads, outcome>>

\* POST /api/rooms/:roomId/messages (userRoutes, registered first); content is
\* the text after trim and the removal of control characters
RoomsMessageStatus(caller, roomId, content) ==
  IF RoomAccessStatus(caller, roomId) # 200 THEN RoomAccessStatus(caller, roomId)
  ELSE IF content = <<>> THEN 400
  ELSE 200

RoomsMessage(caller, roomId, content) ==
  /\ IF RoomsMessageStatus(caller, roomId, content) = 200
     THEN /\ Len(room_messages) < MaxLog
          /\ room_messages' = Append(room_messages,
                 [roomId |-> roomId, senderId |-> caller, content |-> content,
                  type |-> "text"])
          /\ UNCHANGED <<rooms, room_participants>>
     ELSE IF caller = None THEN UNCHANGED <<rooms, room_participants, room_messages>>
     ELSE LookupRoom(roomId)
  /\ resp' = [op |-> "rooms.message", status |-> RoomsMessageStatus(caller, roomId, content),
              caller |-> caller, roomId |-> roomId]
  /\ UNCHANGED <<transfer, clients, sockets, now, users, file_uploads, file_chunks, conversations, messages,
                 disk, reqs, issuedFiles, issuedRooms, fileUploads, outcome>>

\* POST /api/rooms/:roomId/messages up to await c.req.json(): the header, the
\* room lookup and the participant test come before the body is read
RoomsMessageBegin(r, caller, roomId) ==
  /\ reqs[r].pc = "idle"
  /\ IF caller = None THEN UNCHANGED <<rooms, room_participants, room_messages>>
     ELSE LookupRoom(roomId)
  /\ reqs' = IF RoomAccessStatus(caller, roomId) = 200
             THEN [reqs EXCEPT ![r] = [pc |-> "message", caller |-> caller,
                                       roomId |-> roomId]]
             ELSE reqs
  /\ resp' = [op |-> "rooms.message", step |-> "begin", slot |-> r,
              status |-> IF RoomAccessStatus(caller, roomId) = 200 THEN 0
                         ELSE RoomAccessStatus(caller, roomId),
              caller |-> caller, roomId |-> roomId]
  /\ UNCHANGED <<transfer, clients, sockets, now, users, file_uploads, file_chunks, conversations, messages,
                 disk, issuedFiles, issuedRooms, fileUploads, outcome>>

\* the same request from the body on: the content test and db.addMessageToRoom
RoomsMessageStoreStatus(q, content) ==
  IF content = <<>> THEN 400
  ELSE IF addMessageToRoomThrows(rooms, q.roomId) THEN 500
  ELSE 200

RoomsMessageStore(r, content) ==
  /\ reqs[r].pc = "message"
  /\ IF RoomsMessageStoreStatus(reqs[r], content) = 200
     THEN /\ Len(room_messages) < MaxLog
          /\ room_messages' = Append(room_messages,
                 [roomId |-> reqs[r].roomId, senderId |-> reqs[r].caller,
                  content |-> content, type |-> "text"])
     ELSE UNCHANGED room_messages
  /\ reqs' = [reqs EXCEPT ![r] = Idle]
  /\ resp' = [op |-> "rooms.message", step |-> "store", slot |-> r,
              status |-> RoomsMessageStoreStatus(reqs[r], content),
              caller |-> reqs[r].caller, roomId |-> reqs[r].roomId]
  /\ UNCHANGED <<transfer, clients, sockets, now, users, file_uploads, file_chunks, rooms, room_participants,
                 conversations, messages, disk, issuedFiles, issuedRooms,
                 fileUploads, outcome>>

\* Variant for C16: the sweep with a NULL expires_at compared as 0
SweptRoomsNullAsZero(rs, t) ==
  {id \in DOMAIN rs : rs[id].expires_at = Null \/ rs[id].expires_at[1] < t}

\* setInterval(db.cleanupExpiredRooms, 1 h): DELETE FROM rooms WHERE expires_at < now
SweptRooms(rs, t) ==
  {id \in DOMAIN rs : rs[id].expires_at # Null /\ rs[id].expires_at[1] < t}

CleanupExpiredRooms ==
  /\ rooms' = deleteRoomRooms(rooms, SweptRooms(rooms, now))
  /\ room_participants' = Drop(room_participants, SweptRooms(rooms, now))
  /\ room_messages' = deleteRoomMessages(room_messages, SweptRooms(rooms, now))
  /\ resp' = [op |-> "cleanupExpiredRooms", deleted |-> SweptRooms(rooms, now)]
  /\ UNCHANGED <<transfer, clients, sockets, now, users, file_uploads, file_chunks, conversations, messages,
                 disk, reqs, issuedFiles, issuedRooms, fileUploads, outcome>>

\* ------------------------------------------------- legacy in-memory store
\* InMemoryDB.initiateFileUpload
memInitiateFileUpload(totalChunks) ==
  [chunks |-> Empty, totalChunks |-> totalChunks, uploadedChunks |-> 0]

\* InMemoryDB.addFileChunk: throws when the upload is unknown
memAddFileChunkThrows(uploads, fileId) == fileId \notin DOMAIN uploads

memAddFileChunk(upload, chunkIndex, chunkData) ==
  [upload EXCEPT !.chunks = Put(@, chunkIndex, chunkData),
                 !.uploadedChunks = @ + 1]

memAddFileChunkResult(upload) == upload.uploadedChunks = upload.totalChunks

\* InMemoryDB.getCompleteFile: "null", "throw" (a chunk is missing) or "buffer"
memGetCompleteFileKind(uploads, fileId) ==
  IF fileId \notin DOMAIN uploads THEN "null"
  ELSE IF uploads[fileId].uploadedChunks # uploads[fileId].totalChunks THEN "null"
  ELSE IF \E i \in 0..(uploads[fileId].totalChunks - 1) :
            i \notin DOMAIN uploads[fileId].chunks
  THEN "throw"
  ELSE "buffer"

memGetCompleteFile(uploads, fileId) ==
  BufferConcat([i \in 1..uploads[fileId].totalChunks |-> uploads[fileId].chunks[i - 1]])

\* ------------------------------------- store calls, made on both stores
\* db.initiateFileUpload(fileId, metadata, totalChunks)
RepoInitiate(totalChunks) ==
  LET fileId == Fresh(FileIdSeq, issuedFiles) IN
    /\ Cardinality(issuedFiles) < MaxFiles
    /\ issuedFiles' = issuedFiles \cup {fileId}
    /\ file_uploads' = Put(file_uploads, fileId,
                           [metadata |-> Null, total_chunks |-> totalChunks,
                            received_chunks |-> 0, created_at |-> now])
    /\ fileUploads' = Put(fileUploads, fileId, memInitiateFileUpload(totalChunks))
    /\ outcome' = [op |-> "initiateFileUpload", fileId |-> fileId]
    /\ UNCHANGED <<transfer, clients, sockets, now, users, file_chunks, rooms, room_participants, room_messages,
                   conversations, messages, disk, reqs, resp, issuedRooms>>

\* db.addFileChunk(fileId, chunkIndex, chunkData)
RepoAddChunk(fileId, chunkIndex, chunkData) ==
  LET sqlThrows == addFileChunkThrows(file_uploads, fileId, FALSE)
      memThrows == memAddFileChunkThrows(fileUploads, fileId)
      uploads2 == addFileChunkUploads(file_uploads, file_chunks, fileId, chunkIndex, chunkData)
      upload2 == memAddFileChunk(fileUploads[fileId], chunkIndex, chunkData)
  IN
  /\ IF memThrows THEN TRUE ELSE fileUploads[fileId].uploadedChunks < MaxUploaded
  /\ IF sqlThrows THEN UNCHANGED <<file_uploads, file_chunks>>
     ELSE /\ file_chunks' = addFileChunkChunks(file_chunks, fileId, chunkIndex, chunkData)
          /\ file_uploads' = uploads2
  /\ IF memThrows THEN UNCHANGED fileUploads
     ELSE fileUploads' = [fileUploads EXCEPT ![fileId] = upload2]
  /\ outcome' = [op |-> "addFileChunk", fileId |-> fileId, index |-> chunkIndex,
                 sqlThrows |-> sqlThrows,
                 sqlComplete |-> IF sqlThrows THEN FALSE
                                 ELSE addFileChunkResult(uploads2[fileId]),
                 memThrows |-> memThrows,
                 memComplete |-> IF memThrows THEN FALSE
                                 ELSE memAddFileChunkResult(upload2)]
  /\ UNCHANGED <<transfer, clients, sockets, now, users, rooms, room_participants, room_messages, conversations,
                 messages, disk, reqs, resp, issuedFiles, issuedRooms>>

\* db.getCompleteFile(fileId)
RepoGetCompleteFile(fileId) ==
  /\ outcome' = [op |-> "getCompleteFile", fileId |-> fileId,
                 sql |-> getCompleteFile(file_chunks, fileId),
                 memKind |-> memGetCompleteFileKind(fileUploads, fileId),
                 mem |-> IF memGetCompleteFileKind(fileUploads, fileId) = "buffer"
                         THEN Some(memGetCompleteFile(fileUploads, fileId)) ELSE Null]
  /\ UNCHANGED <<transfer, clients, sockets, now, users, file_uploads, file_chunks, rooms, room_participants,
                 room_messages, conversations, messages, disk, reqs, resp,
                 issuedFiles, issuedRooms, fileUploads>>

\* db.deleteFileUpload(fileId)
RepoDelete(fileId) ==
  /\ file_uploads' = deleteFileUploadRows(file_uploads, fileId)
  /\ file_chunks' = deleteFileUploadChunks(file_chunks, fileId)
  /\ fileUploads' = Drop(fileUploads, {fileId})
  /\ outcome' = [op |-> "deleteFileUpload", fileId |-> fileId]
  /\ UNCHANGED <<transfer, clients, sockets, now, users, rooms, room_participants, room_messages, conversations,
                 messages, disk, reqs, resp, issuedFiles, issuedRooms>>

\* ------------------------------------------------ the client's transfer
\* what a fetch of a chunk ends with: a response with res.ok, a response with an
\* error status, the abort of the 120 s timer (AbortError), a TypeError 'Failed
\* to fetch', 'NetworkError when attempting to fetch resource.' or 'Load failed'
FetchResults == {"ok", "status", "AbortError", "Failed to fetch", "NetworkError", "Load failed"}

isTimeout(result) == result = "AbortError"

\* errorMsg.includes('fetch') || includes('network') || includes('ERR_CONNECTION'):
\* 'Chunk upload failed with status N' and 'Load failed' hold none of the words
isNetworkError(result) == result \in {"Failed to fetch", "NetworkError"}

\* Variant for C34: every failure is retried
RetriedAlways(result, retryCount) == retryCount < MAX_RETRIES

\* the catch of uploadChunkWithRetry: retry or throw
Retried(result, retryCount) ==
  retryCount < MAX_RETRIES /\ (isTimeout(result) \/ isNetworkError(result))

\* 2 * Math.pow(2, retryCount)
RECURSIVE Pow2(_)
Pow2(n) == IF n = 0 THEN 1 ELSE 2 * Pow2(n - 1)
delaySeconds(retryCount) == 2 * Pow2(retryCount)

\* Math.round((completedChunks / totalChunks) * 100)
Progress(completedChunks, totalChunks) ==
  (200 * completedChunks + totalChunks) \div (2 * totalChunks)

\* Variant for C35: the inner loop without the bound on activeUploads
CanStartUnbounded(activeUploads, queue) == queue # <<>>

\* while (activeUploads.size < CONCURRENT_UPLOADS && queue.length > 0)
CanStart(activeUploads, queue) ==
  Cardinality(activeUploads) < CONCURRENT_UPLOADS /\ queue # <<>>

\* the number of chunks the inner loop takes from the queue before the await
RECURSIVE StartCount(_, _)
StartCount(activeUploads, queue) ==
  IF CanStart(activeUploads, queue)
  THEN 1 + StartCount(activeUploads \cup {Head(queue)}, Tail(queue))
  ELSE 0

Started(queue, k) == {queue[j] : j \in 1..k}

\* uploadChunksInParallel from the top of its outer loop to its next await, or to
\* the end of handleSendFile's try block when nothing is left
LoopOn(t, event) ==
  LET k == StartCount(t.activeUploads, t.queue)
      begun == Started(t.queue, k)
      active == t.activeUploads \cup begun
  IN  IF active = {}
      THEN [t EXCEPT !.phase = "done", !.progress = 100, !.last = event]
      ELSE [t EXCEPT !.activeUploads = active,
                     !.queue = SubSeq(t.queue, k + 1, Len(t.queue)),
                     !.retryCount = [i \in active |->
                                       IF i \in begun THEN 0 ELSE t.retryCount[i]],
                     !.started = [i \in DOMAIN t.started |->
                                    IF i \in begun THEN t.started[i] + 1
                                    ELSE t.started[i]],
                     !.last = event]

ClientUnchanged ==
  UNCHANGED <<now, users, file_uploads, file_chunks, rooms, room_participants,
              room_messages, conversations, messages, disk, reqs, resp, issuedFiles,
              issuedRooms, fileUploads, outcome, clients, sockets>>

\* handleSendFile up to await api('/api/files/initiate'): the placeholder message
SendFile(totalChunks) ==
  /\ transfer.phase = "idle"
  /\ transfer' = [phase |-> "initiate", totalChunks |-> totalChunks, progress |-> 0,
                  queue |-> [j \in 1..totalChunks |-> j - 1], activeUploads |-> {},
                  retryCount |-> Empty, started |-> [i \in 0..(totalChunks - 1) |-> 0],
                  succeeded |-> {}, completedChunks |-> 0, last |-> [op |-> "send"]]
  /\ ClientUnchanged

\* the answer of initiate: the upload loop starts, or the catch marks the failure
InitiateAnswered(ok) ==
  /\ transfer.phase = "initiate"
  /\ transfer' = IF ok
                 THEN LoopOn([transfer EXCEPT !.phase = "uploading"], [op |-> "initiate"])
                 ELSE [transfer EXCEPT !.phase = "failed", !.progress = -1,
                                       !.last = [op |-> "initiate"]]
  /\ ClientUnchanged

\* the fetch of chunk i ends with result: uploadChunkWithRetry returns, retries
\* after its delay, or throws; a settled upload wakes the loop at Promise.race,
\* and a rejected one ends it in the catch of handleSendFile
ChunkEvent(i, result, retried) ==
  [op |-> "chunk", index |-> i, result |-> result, retried |-> retried,
   retryCount |-> transfer.retryCount[i],
   delaySeconds |-> IF retried THEN delaySeconds(transfer.retryCount[i]) ELSE 0]

Settled(t, i) ==
  [t EXCEPT !.activeUploads = @ \ {i},
            !.retryCount = [j \in t.activeUploads \ {i} |-> t.retryCount[j]]]

ChunkResult(i, result) ==
  /\ transfer.phase \in {"uploading", "failed"}
  /\ i \in transfer.activeUploads
  /\ transfer' =
       IF result = "ok"
       THEN IF transfer.phase = "uploading"
            THEN LoopOn([Settled(transfer, i) EXCEPT
                           !.completedChunks = @ + 1,
                           !.succeeded = @ \cup {i},
                           !.progress = Progress(transfer.completedChunks + 1,
                                                 transfer.totalChunks)],
                        ChunkEvent(i, result, FALSE))
            ELSE [Settled(transfer, i) EXCEPT
                    !.completedChunks = @ + 1,
                    !.succeeded = @ \cup {i},
                    !.progress = Progress(transfer.completedChunks + 1,
                                          transfer.totalChunks),
                    !.last = ChunkEvent(i, result, FALSE)]
       ELSE IF Retried(result, transfer.retryCount[i])
       THEN [transfer EXCEPT !.retryCount[i] = @ + 1,
                             !.last = ChunkEvent(i, result, TRUE)]
       ELSE IF transfer.phase = "uploading"
       THEN [Settled(transfer, i) EXCEPT !.phase = "failed", !.progress = -1,
                                          !.last = ChunkEvent(i, result, FALSE)]
       ELSE [Settled(transfer, i) EXCEPT !.last = ChunkEvent(i, result, FALSE)]
  /\ ClientUnchanged

\* ------------------------------------------------ the WebSocket service
SocketIdSeq == <<"s1", "s2", "s3">>

SocketsUnchanged ==
  UNCHANGED <<now, users, file_uploads, file_chunks, rooms, room_participants,
              room_messages, conversations, messages, disk, reqs, issuedFiles,
              issuedRooms, fileUploads, outcome, transfer>>

\* wss.on('connection'): a connection that has not authenticated yet
handleConnection ==
  /\ Cardinality(DOMAIN sockets) < MaxSockets
  /\ sockets' = Put(sockets, SocketIdSeq[Cardinality(DOMAIN sockets) + 1],
                    [readyState |-> "OPEN", clientUserId |-> None])
  /\ resp' = [op |-> "ws.connection",
              socket |-> SocketIdSeq[Cardinality(DOMAIN sockets) + 1]]
  /\ UNCHANGED clients
  /\ SocketsUnchanged

\* addClient: existingClient.ws.close() starts the closing of the connection
\* registered before; its 'close' event comes later
ClosedByAddClient(cs, ss, userId) ==
  IF userId \in DOMAIN cs /\ ss[cs[userId]].readyState = "OPEN"
  THEN [ss EXCEPT ![cs[userId]].readyState = "CLOSING"]
  ELSE ss

\* broadcast(message, excludeUserId): the users the message is sent to
broadcast(cs, ss, excludeUserId) ==
  {u \in DOMAIN cs : u # excludeUserId /\ ss[cs[u]].readyState = "OPEN"}

\* ws.on('message') with { type: 'auth', payload: { userId } }
handleMessageAuth(ws, userId) ==
  /\ ws \in DOMAIN sockets
  /\ sockets[ws].readyState = "OPEN"
  /\ IF userId = None
     THEN /\ UNCHANGED <<clients, sockets>>
          /\ resp' = [op |-> "ws.auth", socket |-> ws, userId |-> userId,
                      error |-> TRUE, replaced |-> None, online |-> {}]
     ELSE /\ clients' = Put(clients, userId, ws)
          /\ sockets' = [ClosedByAddClient(clients, sockets, userId)
                           EXCEPT ![ws].clientUserId = userId]
          /\ resp' = [op |-> "ws.auth", socket |-> ws, userId |-> userId,
                      error |-> FALSE,
                      replaced |-> IF userId \in DOMAIN clients THEN clients[userId]
                                   ELSE None,
                      online |-> broadcast(Put(clients, userId, ws),
                                           ClosedByAddClient(clients, sockets, userId),
                                           userId)]
  /\ SocketsUnchanged

\* removeClient(userId): this.clients.delete(userId), whichever connection the
\* user is registered with
removeClient(cs, userId) == Drop(cs, {userId})

\* ws.on('close'): the connection was closed by the client, or by addClient
handleClose(ws) ==
  /\ ws \in DOMAIN sockets
  /\ sockets[ws].readyState # "CLOSED"
  /\ sockets' = [sockets EXCEPT ![ws].readyState = "CLOSED"]
  /\ IF sockets[ws].clientUserId # None
     THEN /\ clients' = removeClient(clients, sockets[ws].clientUserId)
          /\ resp' = [op |-> "ws.close", socket |-> ws,
                      offline |-> sockets[ws].clientUserId,
                      sentTo |-> broadcast(removeClient(clients, sockets[ws].clientUserId),
                                           [sockets EXCEPT ![ws].readyState = "CLOSED"],
                                           sockets[ws].clientUserId)]
     ELSE /\ UNCHANGED clients
          /\ resp' = [op |-> "ws.close", socket |-> ws, offline |-> None, sentTo |-> {}]
  /\ SocketsUnchanged

\* --------------------------------------------------- the sanitizers, called directly
ApplySanitizeFilename ==
  /\ outcome.op = "input"
  /\ outcome' = [op |-> "sanitizeFilename", name |-> outcome.name,
                 once |-> sanitizeFilename(outcome.name),
                 twice |-> sanitizeFilename(sanitizeFilename(outcome.name))]
  /\ UNCHANGED <<transfer, clients, sockets, now, users, file_uploads, file_chunks, rooms, room_participants,
                 room_messages, conversations, messages, disk, reqs, resp,
                 issuedFiles, issuedRooms, fileUploads>>

ApplySanitizeUsername ==
  /\ outcome.op = "input"
  /\ outcome' = [op |-> "sanitizeUsername", name |-> outcome.name,
                 once |-> sanitizeUsername(outcome.name),
                 twice |-> sanitizeUsername(sanitizeUsername(outcome.name))]
  /\ UNCHANGED <<transfer, clients, sockets, now, users, file_uploads, file_chunks, rooms, room_participants,
                 room_messages, conversations, messages, disk, reqs, resp,
                 issuedFiles, issuedRooms, fileUploads>>

\* getConversationId called on two pairs of ids
ApplyGetConversationId ==
  /\ outcome.op = "ids"
  /\ outcome' = [op |-> "getConversationId",
                 a |-> outcome.a, b |-> outcome.b, c |-> outcome.c, d |-> outcome.d,
                 ab |-> getConversationId(outcome.a, outcome.b),
                 ba |-> getConversationId(outcome.b, outcome.a),
                 cd |-> getConversationId(outcome.c, outcome.d)]
  /\ UNCHANGED <<transfer, clients, sockets, now, users, file_uploads, file_chunks, rooms, room_participants,
                 room_messages, conversations, messages, disk, reqs, resp,
                 issuedFiles, issuedRooms, fileUploads>>

\* isPathSafe called on a base directory and a target path
ApplyIsPathSafe ==
  /\ outcome.op = "paths"
  /\ outcome' = [op |-> "isPathSafe", basePath |-> outcome.basePath,
                 targetPath |-> outcome.targetPath,
                 normalizedBase |-> resolve(outcome.basePath),
                 normalizedTarget |-> resolve(outcome.targetPath),
                 safe |-> isPathSafe(outcome.basePath, outcome.targetPath)]
  /\ UNCHANGED <<transfer, clients, sockets, now, users, file_uploads, file_chunks, rooms, room_participants,
                 room_messages, conversations, messages, disk, reqs, resp,
                 issuedFiles, issuedRooms, fileUploads>>

\* ------------------------------------------------------------------ inputs
Callers == UserIds \cup {None}
SafeName == <<"a", ".", "t">>
UnsafeName == <<".", ".", "/", "x">>
FileSizes == {0, CHUNK_SIZE, CHUNK_SIZE + 1}
GoodFile == [name |-> SafeName, size |-> CHUNK_SIZE]
Files == {Null, [name |-> UnsafeName, size |-> CHUNK_SIZE], [name |-> <<>>, size |-> CHUNK_SIZE]}
           \cup [name : {SafeName}, size : FileSizes]
\* the target headers: <<recipientId or otherUserId, roomId>>
Direct == <<"u2", None>>
Targets == {Direct, <<None, "r1">>, <<"u2", "r1">>, <<None, None>>}
\* requests to POST /api/files/initiate: any target with a good file, any file
\* with a direct target
InitiateRequests ==
  [caller : {"u1", None}, target : Targets, file : {GoodFile}]
    \cup [caller : {"u1"}, target : {Direct}, file : Files]
ChunkParams == {<<"0">>, <<"1">>, <<"-", "1">>, <<"x">>}
UnknownFileId == "f0"       \* an id that initiate never hands out
\* chunk requests: any index with a direct target, any target with index 0
UploadRequests ==
  [caller : {"u1"}, target : {Direct}, chunkIndex : ChunkParams]
    \cup [caller : {"u1", None}, target : Targets, chunkIndex : {<<"0">>}]
StoredNames == {disk[i].name : i \in 1..Len(disk)}
\* requests to GET /api/files/:fileId: any target with a stored name, an
\* unsafe name with a direct target
DownloadRequests ==
  [caller : {"u2", None}, target : {<<"u1", None>>, <<None, "r1">>, <<"u1", "r1">>, <<None, None>>},
   fileName : StoredNames]
    \cup [caller : {"u2"}, target : {<<"u1", None>>}, fileName : {UnsafeName}]
GenSeq(c1, k, c2) == [i \in 1..(MAX_CODE_ATTEMPTS + 1) |-> IF i <= k THEN c1 ELSE c2]
CollisionRuns == {0, 1, MAX_CODE_ATTEMPTS, MAX_CODE_ATTEMPTS + 1}
Generated == {GenSeq(c1, k, c2) : c1 \in Codes, k \in CollisionRuns, c2 \in Codes}

Contents == {<<>>, <<"h">>}
\* generateRoomCode() gives one code for temporary rooms, another for permanent ones
TempCode == GenSeq(<<"1","0","0","0","0","0">>, 0, <<"1","0","0","0","0","0">>)
PermCode == GenSeq(<<"9","9","9","9","9","9">>, 0, <<"9","9","9","9","9","9">>)

\* file names that try to leave the folder
TraversalNames == {<<".", ".", "x">>, <<"a", "/", "b">>, <<"a", "\\", "b">>}

\* names given to the sanitizers: every string of a few characters, the
\* example of the documentation, and a user name of 51 characters
NameChars == {"a", ".", " ", "/", "_"}
EtcPasswd == <<".", ".", "/", ".", ".", "/", "e", "t", "c", "/", "p", "a", "s", "s", "w", "d">>
LongName == [i \in 1..(MAX_USERNAME_LEN + 1) |-> IF i = MAX_USERNAME_LEN THEN "_" ELSE "a"]
NameInputs ==
  UNION {[1..n -> NameChars] : n \in 0..MaxNameLen} \cup {EtcPasswd, LongName}

\* user ids: short texts over the characters of a UUID
IdChars == {"a", "1", "-"}
IdTexts == UNION {[1..n -> IdChars] : n \in 1..MaxIdLen}

\* paths: two base directories, and every absolute target of a few characters
BasePaths == {<<"/", "b">>, <<"/", "b", "/", "f">>}
PathAlphabet == {"/", ".", "b", "f"}
TargetPaths == {<<"/">> \o t : t \in UNION {[1..n -> PathAlphabet] : n \in 0..MaxPathLen}}

\* The client of the race: it splits a file into chunks and sends chunk i as is
OrigChunk(i) == IF i = 0 THEN "A" ELSE "B"
OriginalFile(size) == [i \in 1..Ceil(size, CHUNK_SIZE) |-> OrigChunk(i - 1)]
ClientParams == {<<"0">>, <<"1">>}

\* ---------------------------------------------------------- specifications
\* The endpoints of the transfer pipeline with arbitrary request parameters,
\* one chunk request in flight at a time
Next ==
  \/ \E u \in UserIds : Login(u)
  \/ \E q \in InitiateRequests : Initiate(q.caller, q.target[1], q.target[2], q.file)
  \/ \E q \in UploadRequests, fileId \in issuedFiles \cup {UnknownFileId},
        chunkData \in Bytes :
       UploadBegin(1, q.caller, fileId, q.chunkIndex, chunkData, q.target[1], q.target[2])
  \/ UploadTimeout(1)
  \/ UploadStore(1)
  \/ UploadSave(1)
  \/ UploadPersist(1)
  \/ \E q \in DownloadRequests : Download(q.caller, q.fileName, q.target[1], q.target[2])

Spec == Init /\ [][Next]_vars

\* Concurrent chunk requests of a well-behaved client for direct transfers,
\* with the clock and the sweep of old uploads
NextRace ==
  \/ \E u \in UserIds : Login(u)
  \/ \E size \in FileSizes \ {0} :
       Initiate("u1", "u2", None, [name |-> SafeName, size |-> size])
  \/ \E r \in Slots, fileId \in issuedFiles \cup {UnknownFileId},
        chunkIndex \in ClientParams :
       /\ fileId \in DOMAIN file_uploads =>
            parseInt(chunkIndex) < file_uploads[fileId].total_chunks
       /\ UploadBegin(r, "u1", fileId, chunkIndex, OrigChunk(parseInt(chunkIndex)),
                      "u2", None)
  \/ \E r \in Slots : UploadTimeout(r)
  \/ \E r \in Slots : UploadStore(r)
  \/ \E r \in Slots : UploadSave(r)
  \/ \E r \in Slots : UploadPersist(r)
  \/ CleanupOldUploads
  \/ Tick

SpecRace == Init /\ [][NextRace]_vars

\* Rooms: creation by both endpoints, join, leave, expiry, sweep, room transfers
NextRoom ==
  \/ \E u \in UserIds : Login(u)
  \/ \E caller \in UserIds, expiresInHours \in {Null, Some(1)}, gen \in Generated :
       RoomsPost(caller, expiresInHours, gen)
  \/ RoomsPost(None, Null, TempCode)
  \/ \E userId \in UserIds, isPermanent \in BOOLEAN, gen \in Generated :
       RoomsCreate(userId, isPermanent, gen)
  \/ RoomsCreate(None, FALSE, TempCode)
  \/ \E caller \in Callers, code \in Codes \cup {<<>>} : RoomsJoin(caller, code)
  \/ \E roomId \in RoomIds, userId \in Callers : RoomsLeave(roomId, userId)
  \/ CleanupExpiredRooms
  \/ Tick
  \/ \E caller \in UserIds :
       Initiate(caller, None, "r1", [name |-> SafeName, size |-> CHUNK_SIZE])

SpecRoom == Init /\ [][NextRoom]_vars

\* Rooms that expire while they are read, written to and swept
NextExpiry ==
  \/ \E u \in UserIds : Login(u)
  \/ RoomsPost("u1", Null, TempCode)
  \/ RoomsCreate("u1", TRUE, PermCode)
  \/ \E code \in Codes : RoomsJoin("u2", code)
  \/ \E caller \in UserIds, roomId \in RoomIds : RoomsGet(caller, roomId)
  \/ \E roomId \in RoomIds, content \in Contents : RoomsMessage("u1", roomId, content)
  \/ \E roomId \in RoomIds : Initiate("u1", None, roomId, GoodFile)
  \/ \E roomId \in RoomIds, fileId \in issuedFiles :
       UploadBegin(1, "u1", fileId, <<"0">>, "A", None, roomId)
  \/ UploadTimeout(1)
  \/ UploadStore(1)
  \/ UploadSave(1)
  \/ \E roomId \in RoomIds, fileName \in StoredNames :
       Download("u1", fileName, None, roomId)
  \/ CleanupExpiredRooms
  \/ Tick

SpecExpiry == Init /\ [][NextExpiry]_vars

\* Two upload sessions of different ages under the sweep of old uploads
NextSweep ==
  \/ \E u \in UserIds : Login(u)
  \/ \E size \in FileSizes \ {0} :
       InitiateWithin(MaxSweepFiles, "u1", "u2", None, [name |-> SafeName, size |-> size])
  \/ \E fileId \in issuedFiles, chunkIndex \in ClientParams :
       UploadBegin(1, "u1", fileId, chunkIndex, "A", "u2", None)
  \/ UploadStore(1)
  \/ UploadSave(1)
  \/ UploadPersist(1)
  \/ CleanupOldUploads
  \/ Tick

SpecSweep == Init /\ [][NextSweep]_vars

\* Downloads by name, direct and from a room, after a direct transfer
NextDownload ==
  \/ \E u \in UserIds : Login(u)
  \/ RoomsPost("u1", Null, TempCode)
  \/ Initiate("u1", "u2", None, GoodFile)
  \/ \E fileId \in issuedFiles : UploadBegin(1, "u1", fileId, <<"0">>, "A", "u2", None)
  \/ UploadStore(1)
  \/ UploadSave(1)
  \/ UploadPersist(1)
  \/ \E caller \in {"u1", None}, fileName \in StoredNames \cup TraversalNames,
        target \in {Direct, <<None, "r1">>, <<"u2", "r1">>} :
       Download(caller, fileName, target[1], target[2])

SpecDownload == Init /\ [][NextDownload]_vars

\* The sanitizers applied to a name, and to their own result
InitNames ==
  /\ now = 0
  /\ transfer = NoTransfer
  /\ clients = Empty
  /\ sockets = Empty
  /\ users = {}
  /\ file_uploads = Empty
  /\ file_chunks = Empty
  /\ rooms = Empty
  /\ room_participants = Empty
  /\ room_messages = <<>>
  /\ conversations = Empty
  /\ messages = <<>>
  /\ disk = <<>>
  /\ reqs = [r \in Slots |-> Idle]
  /\ resp = [op |-> "start"]
  /\ issuedFiles = {}
  /\ issuedRooms = {}
  /\ fileUploads = Empty
  /\ outcome \in {[op |-> "input", name |-> s] : s \in NameInputs}

NextNames ==
  \/ ApplySanitizeFilename
  \/ ApplySanitizeUsername

SpecNames == InitNames /\ [][NextNames]_vars

\* getConversationId applied to two pairs of user ids
InitIds ==
  /\ now = 0
  /\ transfer = NoTransfer
  /\ clients = Empty
  /\ sockets = Empty
  /\ users = {}
  /\ file_uploads = Empty
  /\ file_chunks = Empty
  /\ rooms = Empty
  /\ room_participants = Empty
  /\ room_messages = <<>>
  /\ conversations = Empty
  /\ messages = <<>>
  /\ disk = <<>>
  /\ reqs = [r \in Slots |-> Idle]
  /\ resp = [op |-> "start"]
  /\ issuedFiles = {}
  /\ issuedRooms = {}
  /\ fileUploads = Empty
  /\ outcome \in [op : {"ids"}, a : IdTexts, b : IdTexts, c : IdTexts, d : IdTexts]

NextIds == ApplyGetConversationId

SpecIds == InitIds /\ [][NextIds]_vars

\* Text messages and direct transfers with the push service in any condition
NextNotify ==
  \/ \E u \in UserIds : Login(u)
  \/ \E caller \in Callers, recipientId \in Callers, content \in Contents, ws \in WsStates :
       MessagesPost(caller, recipientId, content, ws)
  \/ Initiate("u1", "u2", None, GoodFile)
  \/ \E fileId \in issuedFiles : UploadBegin(1, "u1", fileId, <<"0">>, "A", "u2", None)
  \/ UploadStore(1)
  \/ UploadSave(1)
  \/ UploadPersist(1)

SpecNotify == Init /\ [][NextNotify]_vars

\* Conversations opened by a read, by a text message and by a direct transfer,
\* between two users and of a user with itself
NextConv ==
  \/ \E u \in UserIds : Login(u)
  \/ \E caller \in Callers, otherUserId \in UserIds : ConversationsGet(caller, otherUserId)
  \/ \E caller \in UserIds, recipientId \in UserIds :
       MessagesPost(caller, recipientId, <<"h">>, "absent")
  \/ \E recipientId \in UserIds : Initiate("u1", recipientId, None, GoodFile)
  \/ \E fileId \in issuedFiles, recipientId \in UserIds :
       UploadBegin(1, "u1", fileId, <<"0">>, "A", recipientId, None)
  \/ UploadStore(1)
  \/ UploadSave(1)
  \/ UploadPersist(1)

SpecConv == Init /\ [][NextConv]_vars

\* Two rooms with create, join, leave, message and file-message requests
\* interleaved at the awaits of the handlers
NextRooms ==
  \/ \E u \in UserIds : Login(u)
  \/ \E gen \in {TempCode, PermCode} : RoomsPost("u1", Null, gen)
  \/ \E code \in Codes : RoomsJoin("u2", code)
  \/ \E roomId \in RoomIds, userId \in UserIds : RoomsLeave(roomId, userId)
  \/ \E caller \in UserIds, roomId \in RoomIds : RoomsMessageBegin(2, caller, roomId)
  \/ \E content \in Contents : RoomsMessageStore(2, content)
  \/ Initiate("u1", None, "r1", GoodFile)
  \/ \E fileId \in issuedFiles : UploadBegin(1, "u1", fileId, <<"0">>, "A", None, "r1")
  \/ UploadStore(1)
  \/ UploadSave(1)

SpecRooms == Init /\ [][NextRooms]_vars

\* The room endpoints called by participants and by other users
NextMember ==
  \/ \E u \in UserIds : Login(u)
  \/ RoomsPost("u1", Null, TempCode)
  \/ \E code \in Codes : RoomsJoin("u2", code)
  \/ \E caller \in UserIds : RoomsGet(caller, "r1")
  \/ \E caller \in UserIds, content \in Contents : RoomsMessage(caller, "r1", content)
  \/ \E caller \in Callers, userId \in UserIds : RoomsLeaveAs(caller, "r1", userId)
  \/ \E method \in {"PUT", "GET"}, caller \in UserIds : RoomsAvatar(method, caller, "r1")
  \/ \E caller \in UserIds : Initiate(caller, None, "r1", GoodFile)
  \/ \E caller \in UserIds, fileId \in issuedFiles :
       UploadBegin(1, caller, fileId, <<"0">>, "A", None, "r1")
  \/ UploadTimeout(1)
  \/ \E caller \in UserIds : Download(caller, SafeName, None, "r1")

SpecMember == Init /\ [][NextMember]_vars

\* Direct and room transfers of a well-behaved client, two requests at a time,
\* while the room may be left
NextAssemble ==
  \/ \E u \in UserIds : Login(u)
  \/ RoomsPost("u1", Null, TempCode)
  \/ RoomsLeave("r1", "u1")
  \/ \E size \in FileSizes \ {0}, target \in {Direct, <<None, "r1">>} :
       Initiate("u1", target[1], target[2], [name |-> SafeName, size |-> size])
  \/ \E r \in Slots, fileId \in issuedFiles, chunkIndex \in ClientParams,
        target \in {Direct, <<None, "r1">>} :
       /\ fileId \in DOMAIN file_uploads
       /\ parseInt(chunkIndex) < file_uploads[fileId].total_chunks
       /\ UploadBegin(r, "u1", fileId, chunkIndex, OrigChunk(parseInt(chunkIndex)),
                      target[1], target[2])
  \/ \E r \in Slots : UploadStore(r)
  \/ \E r \in Slots : UploadSave(r)
  \/ \E r \in Slots : UploadPersist(r)

SpecAssemble == Init /\ [][NextAssemble]_vars

\* One direct transfer that the client may abandon at any point, or that ends
\* in an error while the recipient is not registered; the timers of the sweep
\* and the clock keep running
NextLive ==
  \/ \E u \in UserIds : Login(u)
  \/ \E size \in FileSizes \ {0} :
       Initiate("u1", "u2", None, [name |-> SafeName, size |-> size])
  \/ \E fileId \in issuedFiles \cup {UnknownFileId}, chunkIndex \in ClientParams :
       UploadBegin(1, "u1", fileId, chunkIndex, "A", "u2", None)
  \/ UploadTimeout(1)
  \/ UploadStore(1)
  \/ UploadSave(1)
  \/ UploadPersist(1)
  \/ CleanupOldUploads
  \/ Tick

SpecLive ==
  Init /\ [][NextLive]_vars /\ WF_vars(CleanupOldUploads) /\ WF_vars(Tick)

\* Two direct transfers side by side, two requests at a time
NextTwo ==
  \/ \E u \in UserIds : Login(u)
  \/ \E size \in FileSizes \ {0} :
       InitiateWithin(MaxSweepFiles, "u1", "u2", None, [name |-> SafeName, size |-> size])
  \/ \E r \in Slots, fileId \in issuedFiles \cup {UnknownFileId},
        chunkIndex \in ClientParams :
       UploadBegin(r, "u1", fileId, chunkIndex, OrigChunk(parseInt(chunkIndex)), "u2", None)
  \/ \E r \in Slots : UploadStore(r)
  \/ \E r \in Slots : UploadSave(r)
  \/ \E r \in Slots : UploadPersist(r)

SpecTwo == Init /\ [][NextTwo]_vars

\* isPathSafe applied to a base directory and a target path
InitPaths ==
  /\ now = 0
  /\ transfer = NoTransfer
  /\ clients = Empty
  /\ sockets = Empty
  /\ users = {}
  /\ file_uploads = Empty
  /\ file_chunks = Empty
  /\ rooms = Empty
  /\ room_participants = Empty
  /\ room_messages = <<>>
  /\ conversations = Empty
  /\ messages = <<>>
  /\ disk = <<>>
  /\ reqs = [r \in Slots |-> Idle]
  /\ resp = [op |-> "start"]
  /\ issuedFiles = {}
  /\ issuedRooms = {}
  /\ fileUploads = Empty
  /\ outcome \in [op : {"paths"}, basePath : BasePaths, targetPath : TargetPaths]

NextPaths == ApplyIsPathSafe

SpecPaths == InitPaths /\ [][NextPaths]_vars

\* One transfer of the client, with every outcome of its requests
NextClient ==
  \/ \E totalChunks \in 0..MaxChunks : SendFile(totalChunks)
  \/ \E ok \in BOOLEAN : InitiateAnswered(ok)
  \/ \E i \in 0..(MaxChunks - 1), result \in FetchResults : ChunkResult(i, result)

SpecClient == Init /\ [][NextClient]_vars

\* Connections that authenticate, as the same or as different users, and close
NextSockets ==
  \/ handleConnection
  \/ \E ws \in DOMAIN sockets, userId \in Callers : handleMessageAuth(ws, userId)
  \/ \E ws \in DOMAIN sockets : handleClose(ws)

SpecSockets == Init /\ [][NextSockets]_vars

\* A room with members, messages and a file transfer, deleted by the last leave,
\* by a lookup after its expiry, or by the sweep
NextCascade ==
  \/ \E u \in UserIds : Login(u)
  \/ RoomsPost("u1", Null, TempCode)
  \/ \E code \in Codes : RoomsJoin("u2", code)
  \/ \E userId \in UserIds : RoomsLeave("r1", userId)
  \/ \E caller \in UserIds : RoomsGet(caller, "r1")
  \/ \E caller \in UserIds : RoomsMessageBegin(2, caller, "r1")
  \/ RoomsMessageStore(2, <<"h">>)
  \/ Initiate("u1", None, "r1", GoodFile)
  \/ \E fileId \in issuedFiles : UploadBegin(1, "u1", fileId, <<"0">>, "A", None, "r1")
  \/ UploadStore(1)
  \/ UploadSave(1)
  \/ CleanupExpiredRooms
  \/ Tick

SpecCascade == Init /\ [][NextCascade]_vars

\* One session, initiated by u1 for the direct target u2, and chunk requests
\* for it from either user with any target: u2, u1 or the room r1 of u2
NextBind ==
  \/ \E u \in UserIds : Login(u)
  \/ RoomsPost("u2", Null, TempCode)
  \/ Initiate("u1", "u2", None, GoodFile)
  \/ \E caller \in UserIds, fileId \in issuedFiles,
        target \in {<<"u2", None>>, <<"u1", None>>, <<None, "r1">>} :
       UploadBegin(1, caller, fileId, <<"0">>, "A", target[1], target[2])
  \/ UploadStore(1)
  \/ UploadSave(1)
  \/ UploadPersist(1)

SpecBind == Init /\ [][NextBind]_vars

\* The two stores, called directly
NextRepo ==
  \/ \E totalChunks \in 0..2 : RepoInitiate(totalChunks)
  \/ \E fileId \in FileIds \cup {UnknownFileId}, chunkIndex \in -1..2, chunkData \in Bytes :
       RepoAddChunk(fileId, chunkIndex, chunkData)
  \/ \E fileId \in FileIds \cup {UnknownFileId} : RepoGetCompleteFile(fileId)
  \/ \E fileId \in FileIds : RepoDelete(fileId)

SpecRepo == Init /\ [][NextRepo]_vars

\* ------------------------------------------------------------- properties
\* C1: for every fileId, whatever the interleaving of chunk requests, the
\* assembly runs once: at most one artifact write and at most one file message
\* carry that fileId, and a file message is never without its artifact.
C1_AssembledExactlyOnce ==
  \A f \in FileIds :
    LET writes == {i \in 1..Len(disk) : disk[i].fileId = f}
        msgs == {i \in 1..Len(messages) : messages[i].fileId = f}
    IN /\ Cardinality(writes) <= 1
       /\ Cardinality(msgs) <= 1
       /\ Cardinality(msgs) <= Cardinality(writes)

\* C2: the isComplete value a call of addFileChunk returns is true exactly when
\* the number of distinct chunk indices stored for the fileId after the call
\* equals totalChunks, in the SQLite store and in the in-memory store.
C2_IsCompleteIffDistinctCount ==
  [][outcome'.op = "addFileChunk" =>
       /\ ~outcome'.sqlThrows =>
            (outcome'.sqlComplete <=>
               Cardinality(DOMAIN file_chunks'[outcome'.fileId])
                 = file_uploads'[outcome'.fileId].total_chunks)
       /\ ~outcome'.memThrows =>
            (outcome'.memComplete <=>
               Cardinality(DOMAIN fileUploads'[outcome'.fileId].chunks)
                 = fileUploads'[outcome'.fileId].totalChunks)]_vars

\* C3: storing again an index the session already holds leaves the session's
\* stored-chunk count as it was, and a session that still misses an index of
\* 0..totalChunks-1 does not report isComplete = true after the duplicate,
\* in the SQLite store and in the in-memory store.
C3_DuplicateNeverDoubleCounts ==
  [][outcome'.op = "addFileChunk" =>
       LET f == outcome'.fileId
           i == outcome'.index
       IN /\ (f \in DOMAIN file_chunks /\ i \in DOMAIN file_chunks[f]) =>
               /\ file_uploads'[f].received_chunks = file_uploads[f].received_chunks
               /\ (\E k \in 0..(file_uploads[f].total_chunks - 1) :
                      k \notin DOMAIN file_chunks'[f]) => ~outcome'.sqlComplete
          /\ (f \in DOMAIN fileUploads /\ i \in DOMAIN fileUploads[f].chunks) =>
               /\ fileUploads'[f].uploadedChunks = fileUploads[f].uploadedChunks
               /\ (\E k \in 0..(fileUploads[f].totalChunks - 1) :
                      k \notin DOMAIN fileUploads'[f].chunks) => ~outcome'.memComplete]_vars

\* C4: a chunk request whose index is not a number or lies outside
\* 0..totalChunks-1 of its session is answered 400 (InvalidInput) and stores
\* nothing: chunk rows and the session's count stay as they were.
C4_IndexOutOfRangeRejected ==
  [][\A r \in Slots :
       (/\ resp'.op = "upload" /\ resp'.step = "store" /\ resp'.slot = r
        /\ reqs[r].pc = "body"
        /\ reqs[r].fileId \in DOMAIN file_uploads
        /\ \/ parseIntIsNaN(reqs[r].index)
           \/ parseInt(reqs[r].index) \notin
                0..(file_uploads[reqs[r].fileId].total_chunks - 1))
       => /\ resp'.status = 400
          /\ file_chunks' = file_chunks
          /\ file_uploads' = file_uploads]_vars

\* C5: a chunk request for a fileId that has no upload session (never
\* initiated, already assembled, or swept) is answered 404 (NotFound) and
\* leaves upload sessions and chunk rows unchanged.
C5_UnknownFileIdNotFound ==
  [][\A r \in Slots :
       (/\ resp'.op = "upload" /\ resp'.step = "store" /\ resp'.slot = r
        /\ reqs[r].pc = "body"
        /\ reqs[r].fileId \notin DOMAIN file_uploads)
       => /\ resp'.status = 404
          /\ file_chunks' = file_chunks
          /\ file_uploads' = file_uploads]_vars

\* C6: the bytes the assembly writes for a file that a client split into chunks
\* 0..totalChunks-1 and sent in any order, with any repetitions, are the chunks
\* concatenated in ascending index order: the original file.
C6_RoundTrip ==
  [][\A r \in Slots :
       (/\ resp'.op = "upload" /\ resp'.step = "save" /\ resp'.slot = r
        /\ reqs[r].pc = "save"
        /\ Len(disk') = Len(disk) + 1)
       => disk'[Len(disk')].data = OriginalFile(reqs[r].fileMeta.size)]_vars

C6_Witness ==
  /\ resp.op = "upload" /\ resp.step = "save"
  /\ Len(disk) = 2
  /\ disk[2].data = <<"A", "B">>

\* C7: initiate, chunk upload and download accept exactly one of recipientId
\* and roomId: a request (that names its user) with both or neither is
\* answered 400 (InvalidInput), and no request with both or neither creates an
\* upload session, stores a chunk or reads an artifact.
C7_ExactlyOneTarget ==
  [][/\ (resp'.op = "initiate" /\ (resp'.recipientId # None) = (resp'.roomId # None)) =>
          /\ resp'.caller # None => resp'.status = 400
          /\ resp'.status # 200
          /\ file_uploads' = file_uploads
     /\ (resp'.op = "upload" /\ resp'.step = "begin"
           /\ (resp'.recipientId # None) = (resp'.roomId # None)) =>
          /\ resp'.caller # None => resp'.status = 400
          /\ resp'.status # 0
          /\ reqs' = reqs
          /\ file_chunks' = file_chunks
     /\ (resp'.op = "download" /\ (resp'.otherUserId # None) = (resp'.roomId # None)) =>
          /\ resp'.caller # None => resp'.status = 400
          /\ resp'.status # 200
          /\ ~resp'.readFile]_vars

C7_Witness ==
  /\ resp.op = "download" /\ resp.status = 400
  /\ HasValue(resp.otherUserId) /\ HasValue(resp.roomId)
  /\ resp.fileName \in StoredNames

\* C8: initiate answers 400 (InvalidInput) and creates no upload session when
\* the file name fails the safety check or the size is not greater than 0, so
\* that no session with total_chunks = 0 ever exists.
C8_InitiateRejectsBadMetadata ==
  [][(/\ resp'.op = "initiate" /\ resp'.caller # None /\ resp'.file # Null
      /\ HasValue(resp'.recipientId) /\ ~HasValue(resp'.roomId)
      /\ \/ ~isFilenameSafe(resp'.file.name)
         \/ resp'.file.size <= 0)
     => /\ resp'.status = 400
        /\ file_uploads' = file_uploads
        /\ \A f \in DOMAIN file_uploads' : file_uploads'[f].total_chunks # 0]_vars

\* C9: initiate with a room target succeeds only for a current participant of
\* a room that has not expired: an unknown or expired room is answered 404
\* (NotFound), a caller who is not a participant 403 (Forbidden), and in both
\* cases no upload session is created.
C9_InitiateRoomAccess ==
  [][(resp'.op = "initiate" /\ resp'.caller # None /\ resp'.file # Null
        /\ HasValue(resp'.roomId) /\ ~HasValue(resp'.recipientId)) =>
       LET id == resp'.roomId
           resolvable == /\ id \in DOMAIN rooms
                         /\ (rooms[id].is_permanent \/ rooms[id].expires_at[1] >= now)
       IN /\ ~resolvable => (resp'.status = 404 /\ file_uploads' = file_uploads)
          /\ (resolvable /\ resp'.caller \notin room_participants[id]) =>
               (resp'.status = 403 /\ file_uploads' = file_uploads)
          /\ resp'.status = 200 =>
               (resolvable /\ resp'.caller \in room_participants[id])]_vars

C9_Witness ==
  /\ resp.op = "initiate" /\ resp.status = 403
  /\ resp.roomId \in DOMAIN rooms
  /\ resp.caller \in users \ room_participants[resp.roomId]

\* C10: whatever rooms were created, joined, left, expired and swept, no two
\* rooms that resolve at the same time (stored and not expired) have the same code.
C10_ActiveCodesUnique ==
  \A a \in DOMAIN rooms, b \in DOMAIN rooms :
    (/\ a # b
     /\ getRoomById(rooms, a, now) # None
     /\ getRoomById(rooms, b, now) # None)
    => rooms[a].code # rooms[b].code

C10_Witness ==
  /\ Cardinality({id \in DOMAIN rooms : getRoomById(rooms, id, now) # None}) = 2
  /\ resp.op = "rooms.create" /\ resp.status = 200

\* C11: when the generated code collides with a resolvable room on 10
\* consecutive attempts, room creation (either endpoint) answers 409 (Conflict)
\* and adds no room and no participant row.
C11_TenCollisionsConflict ==
  [][(resp'.op \in {"rooms.post", "rooms.create"} /\ resp'.status \in {200, 500}
        /\ resp'.attempts = MAX_CODE_ATTEMPTS) =>
       /\ resp'.status = 409
       /\ DOMAIN rooms' \subseteq DOMAIN rooms
       /\ DOMAIN room_participants' \subseteq DOMAIN room_participants]_vars

\* C12: a room returned by create has its creator as only participant; when it
\* is not permanent its expires_at is the creation time plus the hours the
\* caller asked for (24 when the endpoint takes none), and expires_at is null
\* exactly when the room is permanent.
C12_CreatedRoomShape ==
  [][(resp'.op \in {"rooms.post", "rooms.create"} /\ resp'.status = 200) =>
       LET id == resp'.roomId
           o == resp'.options
           permanent == "isPermanent" \in DOMAIN o /\ o.isPermanent
           ttlHours == IF "number" \in DOMAIN o THEN o.number ELSE DEFAULT_ROOM_HOURS
       IN /\ room_participants'[id] = {resp'.caller}
          /\ (rooms'[id].expires_at = Null) <=> permanent
          /\ ~permanent => rooms'[id].expires_at = Some(now + ttlHours)]_vars

\* C13: join by a registered user answers 404 (NotFound) when no stored,
\* unexpired room has the code, and leaves the participants of the other rooms
\* as they were; otherwise it answers 200 whether or not the caller was already
\* in the room, and afterwards the participants of that room are the former
\* ones together with the caller (once), the other rooms being unchanged.
C13_JoinIdempotent ==
  [][(resp'.op = "rooms.join" /\ resp'.caller \in users /\ resp'.code # <<>>) =>
       LET resolvable == {id \in DOMAIN rooms :
                            /\ rooms[id].code = resp'.code
                            /\ (rooms[id].is_permanent \/ rooms[id].expires_at[1] >= now)}
       IN /\ resolvable = {} =>
               /\ resp'.status = 404
               /\ \A id \in DOMAIN rooms' : room_participants'[id] = room_participants[id]
          /\ \A id \in resolvable :
               /\ resp'.status = 200 /\ resp'.roomId = id
               /\ DOMAIN rooms' = DOMAIN rooms
               /\ room_participants' =
                    [room_participants EXCEPT ![id] = @ \cup {resp'.caller}]]_vars

C13_Witness ==
  /\ resp.op = "rooms.join" /\ resp.status = 200 /\ resp.already
  /\ resp.caller # rooms[resp.roomId].created_by
  /\ Cardinality(room_participants[resp.roomId]) = 2

\* C14: a successful leave removes the participant and deletes the room at
\* once when nobody is left; after every step no stored room is without
\* participants, and a join never succeeds on a room that had been left empty.
C14_LeaveDeletesEmptyRoom ==
  [][/\ \A id \in DOMAIN rooms' : room_participants'[id] # {}
     /\ (resp'.op = "rooms.leave" /\ resp'.status = 200) =>
          LET id == resp'.roomId
              left == room_participants[id] \ {resp'.caller}
          IN /\ id \in DOMAIN rooms
             /\ IF left = {}
                THEN id \notin DOMAIN rooms' /\ id \notin DOMAIN room_participants'
                ELSE id \in DOMAIN rooms' /\ room_participants'[id] = left
     /\ (resp'.op = "rooms.join" /\ resp'.status = 200) =>
          room_participants[resp'.roomId] # {}]_vars

C14_Witness ==
  /\ resp.op = "rooms.leave" /\ resp.status = 200
  /\ resp.roomId \in issuedRooms \ DOMAIN rooms
  /\ rooms # <<>>

\* C15: a temporary room whose expires_at is before the clock is answered 404
\* (NotFound) by the next well-formed access by id (get, message, file
\* initiate, chunk upload, download) or by code (join), swept or not, and it is
\* out of storage after that access; after a sweep no expired room is stored.
C15_ExpiredRoomNotFound ==
  [][LET Expired(id) == /\ id \in DOMAIN rooms
                        /\ ~rooms[id].is_permanent
                        /\ rooms[id].expires_at[1] < now
         ById == \/ resp'.op \in {"rooms.get", "rooms.message"}
                 \/ resp'.op = "initiate" /\ resp'.file # Null /\ resp'.recipientId = None
                 \/ resp'.op = "upload" /\ resp'.step = "begin" /\ resp'.recipientId = None
                 \/ resp'.op = "download" /\ resp'.otherUserId = None
                      /\ isFilenameSafe(resp'.fileName)
     IN /\ (ById /\ resp'.caller # None /\ Expired(resp'.roomId)) =>
             (resp'.status = 404 /\ resp'.roomId \notin DOMAIN rooms')
        /\ (resp'.op = "rooms.join" /\ resp'.caller # None /\ resp'.code # <<>>) =>
             \A id \in DOMAIN rooms :
               (rooms[id].code = resp'.code /\ Expired(id)) =>
                 (resp'.status = 404 /\ id \notin DOMAIN rooms')
        /\ resp'.op = "cleanupExpiredRooms" =>
             \A id \in DOMAIN rooms : Expired(id) => id \notin DOMAIN rooms']_vars

C15_Witness ==
  /\ resp.op = "rooms.get" /\ resp.status = 404
  /\ resp.deleted = {resp.roomId}
  /\ resp.roomId \notin DOMAIN rooms

\* C16: a permanent room (expires_at null) is never deleted as expired: every
\* lookup, access and sweep, at any time, leaves it and its participants stored.
C16_PermanentNeverExpires ==
  [][\A id \in DOMAIN rooms :
       (rooms[id].is_permanent /\ resp'.op # "rooms.leave") =>
          /\ rooms[id].expires_at = Null
          /\ id \in DOMAIN rooms' /\ rooms'[id] = rooms[id]
          /\ room_participants[id] \subseteq room_participants'[id]]_vars

C16_Witness ==
  /\ resp.op = "cleanupExpiredRooms" /\ resp.deleted # {}
  /\ now = MaxTime
  /\ \E id \in DOMAIN rooms : rooms[id].is_permanent

\* C17: the sweep of old uploads deletes every upload session created more
\* than 24 h ago together with its chunk rows, complete or not, and leaves every
\* younger session and its chunk rows as they were.
C17_SweepOldUploads ==
  [][resp'.op = "cleanupOldUploads" =>
       /\ \A f \in DOMAIN file_uploads :
            IF now - file_uploads[f].created_at > 24
            THEN f \notin DOMAIN file_uploads' /\ f \notin DOMAIN file_chunks'
            ELSE /\ f \in DOMAIN file_uploads' /\ file_uploads'[f] = file_uploads[f]
                 /\ f \in DOMAIN file_chunks =>
                      (f \in DOMAIN file_chunks' /\ file_chunks'[f] = file_chunks[f])
       /\ DOMAIN file_uploads' \subseteq DOMAIN file_uploads
       /\ DOMAIN file_chunks' \subseteq DOMAIN file_chunks]_vars

C17_Witness ==
  /\ resp.op = "cleanupOldUploads" /\ resp.deleted # {}
  /\ \E f \in DOMAIN file_uploads : f \in DOMAIN file_chunks

\* C18: a download whose file name contains '..', '/' or '\' is answered 400
\* (InvalidInput) and no file is read, with a direct target and with a room target.
C18_DownloadRejectsTraversal ==
  [][(/\ resp'.op = "download" /\ resp'.caller # None
      /\ (resp'.otherUserId # None) # (resp'.roomId # None)
      /\ LET n == resp'.fileName
         IN \/ \E i \in 1..Len(n) : n[i] \in {"/", "\\"}
            \/ \E i \in 1..(Len(n) - 1) : n[i] = "." /\ n[i + 1] = ".")
     => (resp'.status = 400 /\ ~resp'.readFile /\ resp'.body = Null
           /\ rooms' = rooms)]_vars

C18_Witness ==
  /\ resp.op = "download" /\ resp.status = 400 /\ resp.fileName = <<"a", "/", "b">>
  /\ resp.otherUserId = None /\ resp.roomId \in DOMAIN rooms
  /\ resp.caller \in room_participants[resp.roomId]
  /\ disk # <<>>

\* C19: the sanitizers are idempotent: applied to their own result,
\* sanitizeFilename and sanitizeUsername give that result again.
C19_SanitizeIdempotent ==
  outcome.op \in {"sanitizeFilename", "sanitizeUsername"} =>
    outcome.twice = outcome.once

\* C20: the result of sanitizeFilename contains no '/', no '\' and no two
\* dots in a row, whatever the input ("../../etc/passwd" included).
C20_SanitizedHasNoTraversal ==
  outcome.op = "sanitizeFilename" =>
    LET n == outcome.once
    IN /\ \A i \in 1..Len(n) : n[i] \notin {"/", "\\"}
       /\ \A i \in 1..(Len(n) - 1) : ~(n[i] = "." /\ n[i + 1] = ".")

\* C21: the conversation id is a canonical key of the unordered pair of user
\* ids: getConversationId(a, b) = getConversationId(b, a), and two pairs get the
\* same id only when they are the same unordered pair.
C21_ConversationIdCanonical ==
  outcome.op = "getConversationId" =>
    /\ outcome.ab = outcome.ba
    /\ (outcome.ab = outcome.cd) <=> ({outcome.a, outcome.b} = {outcome.c, outcome.d})

C21_Witness ==
  /\ outcome.op = "getConversationId"
  /\ outcome.a = <<"a">> /\ outcome.b = <<"1", "-">>
  /\ outcome.c = outcome.b /\ outcome.d = outcome.a
  /\ outcome.ab = <<"1", "-", ":", "a">> /\ outcome.cd = outcome.ab

\* C22: the push service never fails a text message or a file completion:
\* whether no service exists, the recipient has no connection, the connection is
\* closed or its send throws, a valid message between two users is answered 200
\* and stored, and a completed direct transfer stores its file message and goes
\* on to delete its session.
C22_NotifierNeverFails ==
  [][/\ (/\ resp'.op = "messages.post"
          /\ resp'.caller \in users /\ resp'.recipientId \in users
          /\ resp'.content # <<>>) =>
          /\ resp'.status = 200
          /\ Len(messages') = Len(messages) + 1
          /\ messages'[Len(messages')].content = resp'.content
          /\ messages'[Len(messages')].senderId = resp'.caller
     /\ \A r \in Slots :
          (/\ resp'.op = "upload" /\ resp'.step = "save" /\ resp'.slot = r
           /\ reqs[r].pc = "save" /\ reqs[r].recipientId # None) =>
          /\ resp'.status = 0 /\ reqs'[r].pc = "persist"
          /\ Len(messages') = Len(messages) + 1
          /\ messages'[Len(messages')].fileId = reqs[r].fileId]_vars

C22_Witness ==
  /\ resp.op = "upload" /\ resp.step = "save" /\ resp.status = 0
  /\ resp.ws = "throws" /\ ~resp.notified
  /\ messages # <<>> /\ messages[Len(messages)].type = "file"

\* C23: get-by-id, post message, leave, avatar get / put and the room-scoped
\* initiate, chunk upload and download act only for a participant: when the
\* caller is not a participant of the (stored, unexpired) room the answer is
\* 403 (Forbidden) and the room's participants and messages stay as they were.
C23_MembershipRequired ==
  [][LET ById == \/ resp'.op \in {"rooms.get", "rooms.message", "rooms.avatar"}
                 \/ resp'.op = "initiate" /\ resp'.file # Null /\ resp'.recipientId = None
                 \/ resp'.op = "upload" /\ resp'.step = "begin" /\ resp'.recipientId = None
                 \/ resp'.op = "download" /\ resp'.otherUserId = None
         Outsider(caller, id) == /\ caller # None
                                 /\ getRoomById(rooms, id, now) # None
                                 /\ caller \notin room_participants[id]
         Refused(id) == /\ resp'.status = 403
                        /\ room_participants' = room_participants
                        /\ room_messages' = room_messages
     IN /\ (ById /\ Outsider(resp'.caller, resp'.roomId)) => Refused(resp'.roomId)
        /\ (resp'.op = "rooms.leave" /\ Outsider(resp'.header, resp'.roomId)) =>
             Refused(resp'.roomId)]_vars

\* C24: in every state, every upload session holds at most total_chunks
\* distinct chunk indices, and it counts as complete (received_chunks has
\* reached total_chunks) exactly when it holds total_chunks of them.
C24_StoredWithinTotal ==
  \A f \in DOMAIN file_uploads :
    /\ ChunkCount(file_chunks, f) <= file_uploads[f].total_chunks
    /\ (file_uploads[f].received_chunks >= file_uploads[f].total_chunks)
         <=> (ChunkCount(file_chunks, f) = file_uploads[f].total_chunks)

\* C25: when a chunk request brings the stored count of its session to
\* total_chunks while some index of 0..total_chunks-1 is missing, the assembly
\* fails: the request (of registered users) is answered 500 (Internal) and does
\* not go on to write an artifact or a message.
C25_MissingIndexFailsAssembly ==
  [][\A r \in Slots :
       (/\ resp'.op = "upload" /\ resp'.step = "store" /\ resp'.slot = r
        /\ reqs[r].pc = "body"
        /\ reqs[r].caller \in users
        /\ reqs[r].recipientId # None => reqs[r].recipientId \in users
        /\ reqs[r].fileId \in DOMAIN file_uploads'
        /\ ChunkCount(file_chunks', reqs[r].fileId)
             = file_uploads'[reqs[r].fileId].total_chunks
        /\ \E k \in 0..(file_uploads'[reqs[r].fileId].total_chunks - 1) :
             k \notin DOMAIN file_chunks'[reqs[r].fileId])
       => /\ resp'.status = 500
          /\ reqs'[r].pc # "save"
          /\ disk' = disk /\ messages' = messages]_vars

\* C26: a chunk request that is answered with isComplete = true has written
\* the artifact and one message whose content is the artifact's stored name,
\* and when it ends the upload session and every chunk row of its fileId are
\* gone; each artifact write is followed in the same step by at most one message.
C26_CompleteAssemblesAndDeletes ==
  [][/\ (resp'.op = "upload" /\ resp'.step \in {"store", "save", "persist"}
           /\ resp'.status = 200 /\ resp'.isComplete) =>
          LET f == resp'.fileId
              Names == {disk'[i].name : i \in {j \in 1..Len(disk') : disk'[j].fileId = f}}
              Stored(log) == \E i \in 1..Len(log) :
                               /\ log[i].type = "file" /\ log[i].fileId = f
                               /\ log[i].content \in Names
          IN /\ f \notin DOMAIN file_uploads'
             /\ f \notin DOMAIN file_chunks'
             /\ Names # {}
             /\ Stored(messages') \/ Stored(room_messages')
     /\ (resp'.op = "upload" /\ resp'.step = "save" /\ resp'.status # 500) =>
          /\ Len(disk') = Len(disk) + 1
          /\ Len(messages') + Len(room_messages') = Len(messages) + Len(room_messages) + 1
          /\ LET log == IF messages' # messages THEN messages' ELSE room_messages'
             IN  log[Len(log)].content = disk'[Len(disk')].name]_vars

C26_Witness ==
  /\ resp.op = "upload" /\ resp.step = "save" /\ resp.status = 200 /\ resp.isComplete
  /\ disk[Len(disk)].data = <<"A", "B">>
  /\ room_messages # <<>> /\ room_messages[Len(room_messages)].content = disk[Len(disk)].name
  /\ file_uploads = Empty /\ file_chunks = Empty

\* C27: chunk storage is last-writer-wins per index: a stored chunk replaces
\* what the session held under its index and leaves every other index and
\* every other session as they were, and the bytes handed to the assembly (and
\* then written as the artifact) are the rows held at that moment, in index order.
C27_LastWriterWins ==
  [][\A r \in Slots :
       /\ (/\ resp'.op = "upload" /\ resp'.step = "store" /\ resp'.slot = r
           /\ reqs[r].pc = "body" /\ resp'.status # 500) =>
            LET f == reqs[r].fileId
                k == parseInt(reqs[r].index)
            IN /\ file_chunks'[f][k] = reqs[r].data
               /\ DOMAIN file_chunks' = DOMAIN file_chunks \cup {f}
               /\ \A g \in DOMAIN file_chunks : g # f => file_chunks'[g] = file_chunks[g]
               /\ f \in DOMAIN file_chunks =>
                    /\ DOMAIN file_chunks'[f] = DOMAIN file_chunks[f] \cup {k}
                    /\ \A j \in DOMAIN file_chunks[f] :
                         j # k => file_chunks'[f][j] = file_chunks[f][j]
               /\ reqs'[r].pc = "save" =>
                    LET order == OrderByIndex(DOMAIN file_chunks'[f])
                    IN  reqs'[r].completeFile =
                          [i \in 1..Len(order) |-> file_chunks'[f][order[i]]]
       /\ (/\ resp'.op = "upload" /\ resp'.step = "save" /\ resp'.slot = r
           /\ reqs[r].pc = "save") =>
            disk'[Len(disk')].data = reqs[r].completeFile]_vars

C27_Witness ==
  /\ resp.op = "upload" /\ resp.step = "store" /\ resp.status = 200
  /\ ~resp.isComplete
  /\ resp.index = <<"0">> /\ resp.replaced = Some("A")
  /\ file_chunks[resp.fileId][0] = "B"

\* C28: every upload session is eventually destroyed: with the sweep timer and
\* the clock running (weak fairness), a session, created early enough for the
\* clock of the model to pass its 24 h, is eventually out of file_uploads,
\* whether the client completes it, abandons it, or its assembly ended in an error.
C28_SessionEventuallyDestroyed ==
  \A f \in FileIds :
    (f \in DOMAIN file_uploads /\ file_uploads[f].created_at + UPLOAD_MAX_AGE < MaxTime)
      ~> (f \notin DOMAIN file_uploads)

C28_Witness ==
  /\ resp.op = "cleanupOldUploads" /\ resp.deleted = {"f1"}
  /\ "u2" \notin users /\ disk = <<>>
  /\ file_uploads = Empty /\ file_chunks = Empty

\* C29: transfers are independent: an initiate, a stored chunk, an assembly or
\* the deletion of a session for one fileId leaves the session row (metadata,
\* total_chunks, received_chunks) and the chunk rows of every other fileId as
\* they were.
C29_TransfersIndependent ==
  [][LET Others(f) ==
           /\ \A g \in DOMAIN file_uploads \ {f} :
                g \in DOMAIN file_uploads' /\ file_uploads'[g] = file_uploads[g]
           /\ \A g \in DOMAIN file_chunks \ {f} :
                g \in DOMAIN file_chunks' /\ file_chunks'[g] = file_chunks[g]
           /\ DOMAIN file_uploads' \subseteq DOMAIN file_uploads \cup {f}
           /\ DOMAIN file_chunks' \subseteq DOMAIN file_chunks \cup {f}
     IN /\ (resp'.op = "initiate" /\ resp'.status = 200) => Others(resp'.fileId)
        /\ \A r \in Slots :
             (/\ resp'.op = "upload" /\ resp'.step \in {"store", "save", "persist"}
              /\ resp'.slot = r) => Others(reqs[r].fileId)]_vars

C29_Witness ==
  /\ resp.op = "upload" /\ resp.step = "persist" /\ resp.fileId = "f2"
  /\ DOMAIN file_uploads = {"f1"} /\ file_uploads["f1"].total_chunks = 2
  /\ "f1" \in DOMAIN file_chunks /\ DOMAIN file_chunks["f1"] = {1}
  /\ reqs[1].pc = "body" /\ reqs[1].fileId = "f1"

\* C30: isPathSafe(base, target) is true only when the resolved target is the
\* base directory or lies inside it, that is, when the directories that lead
\* to the base are the first directories of the target; a sibling whose name
\* only starts like the name of the base is outside.
C30_PathContainment ==
  outcome.op = "isPathSafe" =>
    LET base == ResolveSegments(Split(outcome.basePath, "/"), <<>>)
        target == ResolveSegments(Split(outcome.targetPath, "/"), <<>>)
    IN outcome.safe =>
         /\ Len(base) <= Len(target)
         /\ \A i \in 1..Len(base) : target[i] = base[i]

\* C31: every stored conversation has exactly 2 participants; a conversation is
\* created by the first read or message of its pair, a later access of the pair
\* (in either order) adds no conversation, and no step removes or changes a
\* stored conversation.
C31_ConversationsOfTwo ==
  [][/\ \A c \in DOMAIN conversations' : Cardinality(conversations'[c]) = 2
     /\ \A c \in DOMAIN conversations :
          c \in DOMAIN conversations' /\ conversations'[c] = conversations[c]
     /\ Cardinality(DOMAIN conversations') <= Cardinality(DOMAIN conversations) + 1
     /\ \A c \in DOMAIN conversations', d \in DOMAIN conversations' :
          conversations'[c] = conversations'[d] => c = d]_vars

\* what the store holds about one room: its row, its participants, its messages
RoomState(rs, parts, msgs, id) ==
  IF id \in DOMAIN rs
  THEN <<Some(rs[id]), IF id \in DOMAIN parts THEN parts[id] ELSE {},
         SelectSeq(msgs, LAMBDA m : m.roomId = id)>>
  ELSE <<Null, IF id \in DOMAIN parts THEN parts[id] ELSE {},
         SelectSeq(msgs, LAMBDA m : m.roomId = id)>>

\* C32: whatever the interleaving of create, join, leave and message requests at
\* their await points, after every step each stored room has a participant, each
\* participant row and each room message belongs to a stored room, no two stored
\* rooms share a code, and the step changed at most one room that was not
\* expired: for a leave or a message, the room named in the request.
C32_RoomMutationsRaceFree ==
  [][/\ DOMAIN room_participants' \subseteq DOMAIN rooms'
     /\ \A id \in DOMAIN rooms' :
          id \in DOMAIN room_participants' /\ room_participants'[id] # {}
     /\ \A i \in 1..Len(room_messages') : room_messages'[i].roomId \in DOMAIN rooms'
     /\ \A a \in DOMAIN rooms', b \in DOMAIN rooms' :
          rooms'[a].code = rooms'[b].code => a = b
     /\ Cardinality({id \in RoomIds :
           /\ RoomState(rooms', room_participants', room_messages', id)
                # RoomState(rooms, room_participants, room_messages, id)
           /\ ~(id \in DOMAIN rooms /\ RoomExpired(rooms[id], now))}) <= 1
     /\ resp'.op \in {"rooms.message", "rooms.leave"} =>
          \A id \in RoomIds \ {resp'.roomId} :
            RoomState(rooms', room_participants', room_messages', id)
              = RoomState(rooms, room_participants, room_messages, id)]_vars

\* a message request passed the participant test, the room was deleted while the
\* body was read, and the INSERT was refused: no message of that room is stored
C32_Witness ==
  /\ resp.op = "rooms.message" /\ resp.step = "store" /\ resp.status = 500
  /\ resp.roomId \notin DOMAIN rooms
  /\ rooms # Empty

\* C33: the in-memory store and the SQLite store answer alike: for a session of
\* at least one chunk and calls with indices of 0..totalChunks-1, duplicates
\* included, addFileChunk returns the same isComplete on both (or throws on
\* both), and getCompleteFile returns the same bytes on both, or nothing on both.
C33_StoresAgree ==
  [][/\ (/\ outcome'.op = "addFileChunk"
         /\ outcome'.fileId \in DOMAIN file_uploads
         /\ outcome'.fileId \in DOMAIN fileUploads
         /\ outcome'.index \in 0..(file_uploads[outcome'.fileId].total_chunks - 1)
         /\ \A i \in DOMAIN fileUploads[outcome'.fileId].chunks :
              i \in 0..(file_uploads[outcome'.fileId].total_chunks - 1))
        => /\ outcome'.sqlThrows = outcome'.memThrows
           /\ outcome'.sqlComplete = outcome'.memComplete
     /\ (/\ outcome'.op = "getCompleteFile"
         /\ outcome'.fileId \in DOMAIN file_uploads
         /\ file_uploads[outcome'.fileId].total_chunks >= 1
         /\ outcome'.fileId \in DOMAIN fileUploads
         /\ \A i \in DOMAIN fileUploads[outcome'.fileId].chunks :
              i \in 0..(file_uploads[outcome'.fileId].total_chunks - 1))
        => /\ outcome'.memKind # "throw"
           /\ outcome'.sql = outcome'.mem]_vars

\* C34: a chunk is tried again only after a timeout or a network error, at most
\* 5 times, the k-th time after 2, 4, 8, 16, 32 seconds; a chunk that fails with
\* an error status, or fails after its 5th retry, ends the transfer: the message
\* progress becomes -1, and from then on no chunk is taken from the queue.
C34_BoundedRetriesThenAbort ==
  [][/\ (transfer'.phase \in {"uploading", "failed"} /\ transfer'.last.op = "chunk") =>
          /\ transfer'.last.retried =>
                /\ transfer'.last.result \in {"AbortError", "Failed to fetch", "NetworkError"}
                /\ transfer'.last.retryCount < 5
                /\ transfer'.last.delaySeconds
                     = <<2, 4, 8, 16, 32>>[transfer'.last.retryCount + 1]
                /\ transfer'.retryCount[transfer'.last.index]
                     = transfer'.last.retryCount + 1
          /\ (/\ transfer'.last.result # "ok"
              /\ (transfer'.last.result = "status" \/ transfer'.last.retryCount = 5)) =>
                /\ ~transfer'.last.retried
                /\ transfer.phase = "uploading" =>
                     transfer'.phase = "failed" /\ transfer'.progress = -1
     /\ transfer.phase \in {"uploading", "failed"} =>
          \A i \in transfer'.activeUploads : transfer'.retryCount[i] <= 5
     /\ transfer.phase = "failed" =>
          /\ transfer'.phase = "failed"
          /\ transfer'.queue = transfer.queue
          /\ transfer'.started = transfer.started
          /\ transfer'.activeUploads \subseteq transfer.activeUploads]_vars

\* a chunk failed with a timeout after its 5th retry while other chunks waited
\* in the queue: the transfer is marked as failed and the queue is left as it is
C34_Witness ==
  /\ transfer.phase = "failed" /\ transfer.progress = -1
  /\ transfer.last.op = "chunk" /\ transfer.last.result = "AbortError"
  /\ transfer.last.retryCount = 5
  /\ transfer.queue # <<>>

\* C35: at most CONCURRENT_UPLOADS (a number from 1 to 3) chunk uploads are in
\* flight, no chunk index is started twice, and a transfer that is reported as
\* successful has started every index of 0..totalChunks-1 once and has seen
\* every one of these uploads succeed.
C35_BoundedConcurrency ==
  /\ CONCURRENT_UPLOADS \in 1..3
  /\ transfer.phase \in {"uploading", "done", "failed"} =>
       /\ Cardinality(transfer.activeUploads) <= CONCURRENT_UPLOADS
       /\ \A i \in 0..(transfer.totalChunks - 1) : transfer.started[i] <= 1
       /\ transfer.activeUploads \subseteq 0..(transfer.totalChunks - 1)
       /\ transfer.phase = "done" =>
            /\ \A i \in 0..(transfer.totalChunks - 1) : transfer.started[i] = 1
            /\ transfer.succeeded = 0..(transfer.totalChunks - 1)
            /\ transfer.completedChunks = transfer.totalChunks
            /\ transfer.activeUploads = {}

\* a transfer of more chunks than may be in flight ended well after a retry
C35_Witness ==
  /\ transfer.phase = "done"
  /\ transfer.totalChunks = MaxChunks
  /\ transfer.completedChunks = MaxChunks
  /\ transfer.last.op = "chunk" /\ transfer.last.retryCount > 0

\* C36: when a connection closes while its user is registered with another, open
\* connection (the user authenticated again on a new connection), the user stays
\* registered with that connection and is not announced as offline.
C36_ReconnectKeepsRegistration ==
  [][\A ws \in DOMAIN sockets, u \in UserIds :
       (/\ resp'.op = "ws.close" /\ resp'.socket = ws
        /\ u \in DOMAIN clients /\ clients[u] # ws
        /\ sockets[clients[u]].readyState = "OPEN")
       => /\ u \in DOMAIN clients' /\ clients'[u] = clients[u]
          /\ resp'.offline # u]_vars

\* C37: in every reachable state each participant row and each room message
\* belongs to a room that is stored, whichever way rooms were deleted (the last
\* leave, a lookup after the expiry, the sweep) and whenever a message or a file
\* message was inserted.
C37_RoomRowsHaveRoom ==
  /\ DOMAIN room_participants \subseteq DOMAIN rooms
  /\ \A i \in 1..Len(room_messages) : room_messages[i].roomId \in DOMAIN rooms

\* the file message of a finished room transfer (artifact written, session
\* deleted) is gone after the sweep deleted the expired room
C37_Witness ==
  /\ resp.op = "cleanupExpiredRooms" /\ resp.deleted # {}
  /\ Len(disk) = 1 /\ disk[1].fileId \notin DOMAIN file_uploads
  /\ room_messages = <<>>
  /\ rooms = Empty

\* C38: the file message stored when a transfer completes has the caller of the
\* completing chunk request as its sender and that request's target (the
\* conversation of caller and recipient, or the room) as its place; the session
\* row holds the file metadata and the counts only, no caller and no target.
C38_MessageFollowsCompletingRequest ==
  [][/\ \A r \in Slots :
          (/\ reqs[r].pc = "save"
           /\ resp'.op = "upload" /\ resp'.step = "save" /\ resp'.slot = r)
          => IF reqs[r].recipientId # None
             THEN /\ Len(messages') = Len(messages) + 1
                  /\ messages'[Len(messages')].senderId = reqs[r].caller
                  /\ messages'[Len(messages')].fileId = reqs[r].fileId
                  /\ messages'[Len(messages')].conversationId \in
                       {IdText(reqs[r].caller) \o <<":">> \o IdText(reqs[r].recipientId),
                        IdText(reqs[r].recipientId) \o <<":">> \o IdText(reqs[r].caller)}
                  /\ room_messages' = room_messages
             ELSE /\ messages' = messages
                  /\ resp'.status = 200 =>
                       /\ Len(room_messages') = Len(room_messages) + 1
                       /\ room_messages'[Len(room_messages')].senderId = reqs[r].caller
                       /\ room_messages'[Len(room_messages')].roomId = reqs[r].roomId
                       /\ room_messages'[Len(room_messages')].fileId = reqs[r].fileId
     /\ \A f \in DOMAIN file_uploads' :
          /\ DOMAIN file_uploads'[f]
               = {"metadata", "total_chunks", "received_chunks", "created_at"}
          /\ DOMAIN file_uploads'[f].metadata = {"name", "size"}]_vars

\* the session that u1 initiated for the direct target u2 ended as a file
\* message of u2 in the room r1
C38_Witness ==
  /\ resp.op = "upload" /\ resp.step = "save" /\ resp.status = 200
  /\ room_messages # <<>>
  /\ room_messages[1].type = "file"
  /\ room_messages[1].senderId = "u2"
  /\ room_messages[1].roomId = "r1"
  /\ room_messages[1].fileId = "f1"
  /\ messages = <<>>

\* C39: a chunk request that reaches addFileChunk when the session of its file
\* id has been deleted (by the assembly or by the sweep) is answered without
\* any write: no session row, no chunk row, no artifact and no message; and a
\* file id whose session is gone never has a session or a chunk row again.
C39_LateChunkStoresNothing ==
  [][/\ \A r \in Slots :
          (/\ reqs[r].pc = "body"
           /\ reqs[r].fileId \in issuedFiles
           /\ reqs[r].fileId \notin DOMAIN file_uploads
           /\ resp'.op = "upload" /\ resp'.step = "store" /\ resp'.slot = r)
          => /\ file_uploads' = file_uploads
             /\ file_chunks' = file_chunks
             /\ messages' = messages
             /\ disk' = disk
             /\ reqs'[r].pc = "idle"
             /\ resp'.status >= 400
     /\ \A f \in issuedFiles :
          f \notin DOMAIN file_uploads
          => f \notin DOMAIN file_uploads' /\ f \notin DOMAIN file_chunks']_vars

\* chunk 0 of f1 arrived again after f1 was assembled into its one message and
\* its session deleted
C39_Witness ==
  /\ resp.op = "upload" /\ resp.step = "store" /\ resp.status = 500
  /\ resp.fileId = "f1" /\ resp.index = <<"0">>
  /\ "f1" \notin DOMAIN file_uploads
  /\ "f1" \notin DOMAIN file_chunks
  /\ Len(messages) = 1 /\ messages[1].fileId = "f1"
  /\ Len(disk) = 1

====
